---- MODULE Spec2Model ----
(***************************************************************************)
(* A model of the taskdoit task list (js/app.js, js/tasks.js,              *)
(* js/editor.js): the store (tasks, templates, composer draft, view        *)
(* state), the persisted snapshot, the rendered task cards and the         *)
(* deferred-completion timers, with one action per event handler.          *)
(*                                                                         *)
(* JavaScript strings are sequences of one-character strings, so that the  *)
(* cleaning, case folding, parsing and formatting functions are computed   *)
(* as the code computes them.  NULL and NOTSTRING are one-token sequences  *)
(* that are no string over characters: null, and a JSON value that is not  *)
(* a string (a number, an object, or an absent field).                     *)
(***************************************************************************)
EXTENDS Integers, Sequences, FiniteSets, TLC

VARIABLES
    tasks,                   \* state.tasks: sequence of task records
    templates,               \* state.templates: sequence of labels
    composerTemplate,        \* state.composerTemplate
    composerDueDate,         \* state.composerDueDate
    activeFilter,            \* state.activeFilter
    activeView,              \* state.activeView
    storage,                 \* the localStorage entry under STORAGE_KEY
    setItemThrows,           \* whether localStorage.setItem throws (quota, privacy mode)
    pendingCompletionTimers, \* Map task id -> timer id
    timers,                  \* the browser's scheduled timeouts
    nextTimerId,             \* next id window.setTimeout returns
    cards,                   \* the task cards last rendered into #task-list
    now,                     \* the clock, in milliseconds
    nextTaskId,              \* how many ids createTaskId has produced
    ev,                      \* history: the handler that ran last, and its input
    reopened,                \* history: ids whose last user toggle made them incomplete
    deletedPending           \* history: timers that were scheduled for a task when it was deleted

vars ==
    <<tasks, templates, composerTemplate, composerDueDate, activeFilter, activeView,
      storage, setItemThrows, pendingCompletionTimers, timers, nextTimerId, cards, now,
      nextTaskId, ev, reopened, deletedPending>>

(***************************************************************************)
(* Bounds of the model.                                                    *)
(***************************************************************************)
MaxTimers == 2        \* window.setTimeout is called at most this often
MaxTicks == 1         \* the clock advances at most this often
MaxNewTasks == 1      \* createTask is called at most this often

(***************************************************************************)
(* Program constants.                                                      *)
(***************************************************************************)
STORAGE_VERSION == 2
TEMPLATE_NAME_MAX_LENGTH == 32
TASK_COMPLETE_ANIMATION_MS == 440
LEGACY_AUTO_TEMPLATE == <<"G", "E", "N", "E", "R", "A", "L">>
FILTER_MODE_ALL == <<"a", "l", "l">>
FILTER_MODE_NONE == <<"n", "o", "n", "e">>
FILTER_VALUE_ALL == <<"_", "_", "a", "l", "l", "_", "_">>
FILTER_VALUE_NONE == <<"_", "_", "n", "o", "n", "e", "_", "_">>
FILTER_VALUE_TEMPLATE_PREFIX == <<"_", "_", "t", "p", "l", "_", "_", ":">>
VIEW_MODE_TASKS == "tasks"
VIEW_MODE_COMPLETED == "completed"

NULL == <<"null">>
NOTSTRING == <<"notstring">>

IsString(v) == v # NULL /\ v # NOTSTRING

\* JavaScript truthiness of a value that is a string, null or undefined.
Truthy(v) == IsString(v) /\ Len(v) > 0

(***************************************************************************)
(* String primitives.                                                      *)
(***************************************************************************)
NBSP == "nbsp"

\* The characters \s matches and String.prototype.trim removes.
IsSpace(c) == c \in {" ", "\t", NBSP}

UpperLetters == <<"A", "E", "G", "H", "K", "L", "M", "N", "O", "R", "W">>
LowerLetters == <<"a", "e", "g", "h", "k", "l", "m", "n", "o", "r", "w">>

ToLowerChar(c) ==
    IF \E i \in 1..Len(UpperLetters) : UpperLetters[i] = c
    THEN LowerLetters[CHOOSE i \in 1..Len(UpperLetters) : UpperLetters[i] = c]
    ELSE c

RECURSIVE TrimStart(_)
TrimStart(s) ==
    IF Len(s) > 0 /\ IsSpace(Head(s)) THEN TrimStart(Tail(s)) ELSE s

RECURSIVE TrimEnd(_)
TrimEnd(s) ==
    IF Len(s) > 0 /\ IsSpace(s[Len(s)]) THEN TrimEnd(SubSeq(s, 1, Len(s) - 1)) ELSE s

Trim(s) == TrimEnd(TrimStart(s))

\* s.replace(/\s+/g, " ")
RECURSIVE CollapseSpaces(_)
CollapseSpaces(s) ==
    IF Len(s) = 0 THEN <<>>
    ELSE IF IsSpace(Head(s))
         THEN <<" ">> \o CollapseSpaces(TrimStart(s))
         ELSE <<Head(s)>> \o CollapseSpaces(Tail(s))

Slice(s, n) == SubSeq(s, 1, IF Len(s) < n THEN Len(s) ELSE n)

StartsWith(s, p) == Len(s) >= Len(p) /\ SubSeq(s, 1, Len(p)) = p

Digits == <<"0", "1", "2", "3", "4", "5", "6", "7", "8", "9">>

IsDigit(c) == \E i \in 1..10 : Digits[i] = c

DigitValue(c) == (CHOOSE i \in 1..10 : Digits[i] = c) - 1

\* Number(s) for a string of decimal digits
RECURSIVE ToNumber(_)
ToNumber(s) ==
    IF Len(s) = 0 THEN 0
    ELSE 10 * ToNumber(SubSeq(s, 1, Len(s) - 1)) + DigitValue(s[Len(s)])

\* String(n) for n >= 0
RECURSIVE NumberToString(_)
NumberToString(n) ==
    IF n < 10 THEN <<Digits[n + 1]>>
    ELSE NumberToString(n \div 10) \o <<Digits[(n % 10) + 1]>>

RECURSIVE PadStart(_, _)
PadStart(s, n) == IF Len(s) >= n THEN s ELSE PadStart(<<"0">> \o s, n)

(***************************************************************************)
(* Template names (app.js).                                                *)
(***************************************************************************)
sanitizeTemplateName(value) ==
    IF ~IsString(value) THEN <<>>
    ELSE LET withoutBrackets ==
                 [i \in 1..Len(value) |-> IF value[i] \in {"[", "]"} THEN " " ELSE value[i]]
             collapsed == Trim(CollapseSpaces(withoutBrackets))
         IN  Slice(collapsed, TEMPLATE_NAME_MAX_LENGTH)

getTemplateKey(templateName) ==
    [i \in 1..Len(templateName) |-> ToLowerChar(templateName[i])]

\* Array.prototype.find(...) || null
FindFirst(list, key) ==
    IF \E i \in 1..Len(list) : getTemplateKey(list[i]) = key
    THEN LET i == CHOOSE k \in 1..Len(list) :
                      /\ getTemplateKey(list[k]) = key
                      /\ \A j \in 1..(k - 1) : getTemplateKey(list[j]) # key
         IN  IF Truthy(list[i]) THEN list[i] ELSE NULL
    ELSE NULL

findTemplateValue(list, candidate) ==
    LET cleaned == sanitizeTemplateName(candidate)
    IN  IF Len(cleaned) = 0 THEN NULL
        ELSE FindFirst(list, getTemplateKey(cleaned))

\* pushUniqueTemplate mutates the array and returns a label: the pair
\* [list |-> the array afterwards, value |-> the value returned].
pushUniqueTemplate(list, candidate) ==
    LET cleaned == sanitizeTemplateName(candidate)
    IN  IF Len(cleaned) = 0 THEN [list |-> list, value |-> NULL]
        ELSE LET existing == findTemplateValue(list, cleaned)
             IN  IF Truthy(existing)
                 THEN [list |-> list, value |-> existing]
                 ELSE [list |-> Append(list, cleaned), value |-> cleaned]

(***************************************************************************)
(* Dates (app.js, tasks.js).  A Date is the record of its local calendar   *)
(* fields; new Date(year, monthIndex, day) normalises out-of-range fields  *)
(* and maps the years 0..99 to 1900..1999.                                 *)
(***************************************************************************)
IsLeapYear(y) == (y % 4 = 0 /\ y % 100 # 0) \/ y % 400 = 0

\* monthIndex in 0..11
DaysInMonth(y, monthIndex) ==
    IF monthIndex = 1 THEN (IF IsLeapYear(y) THEN 29 ELSE 28)
    ELSE IF monthIndex \in {3, 5, 8, 10} THEN 30 ELSE 31

RECURSIVE NormalizeDay(_, _, _)
NormalizeDay(y, monthIndex, day) ==
    IF day < 1
    THEN LET py == IF monthIndex = 0 THEN y - 1 ELSE y
             pm == IF monthIndex = 0 THEN 11 ELSE monthIndex - 1
         IN  NormalizeDay(py, pm, day + DaysInMonth(py, pm))
    ELSE IF day > DaysInMonth(y, monthIndex)
    THEN LET ny == IF monthIndex = 11 THEN y + 1 ELSE y
             nm == IF monthIndex = 11 THEN 0 ELSE monthIndex + 1
         IN  NormalizeDay(ny, nm, day - DaysInMonth(y, monthIndex))
    ELSE [ok |-> TRUE, year |-> y, month |-> monthIndex, date |-> day]

\* new Date(year, monthIndex, day)
NewDate(year, monthIndex, day) ==
    LET full == IF year >= 0 /\ year <= 99 THEN 1900 + year ELSE year
    IN  NormalizeDay(full + (monthIndex \div 12), monthIndex % 12, day)

InvalidDate == [ok |-> FALSE, year |-> 0, month |-> 0, date |-> 0]

isValidDateParts(year, month, day) ==
    LET candidate == NewDate(year, month - 1, day)
    IN  /\ candidate.year = year
        /\ candidate.month = month - 1
        /\ candidate.date = day

toIsoDate(year, month, day) ==
    PadStart(NumberToString(year), 4) \o <<"-">> \o PadStart(NumberToString(month), 2)
        \o <<"-">> \o PadStart(NumberToString(day), 2)

toIsoDateFromLocalDate(date) == toIsoDate(date.year, date.month + 1, date.date)

AllDigits(s) == \A i \in 1..Len(s) : IsDigit(s[i])

\* ISO_DATE_PATTERN = /^(\d{4})-(\d{2})-(\d{2})$/
MatchesIsoDatePattern(s) ==
    /\ Len(s) = 10
    /\ AllDigits(SubSeq(s, 1, 4)) /\ s[5] = "-"
    /\ AllDigits(SubSeq(s, 6, 7)) /\ s[8] = "-"
    /\ AllDigits(SubSeq(s, 9, 10))

\* parseIsoDate returns a Date or null: InvalidDate stands for null.
parseIsoDate(isoDate) ==
    IF ~IsString(isoDate) THEN InvalidDate
    ELSE LET t == Trim(isoDate)
         IN  IF ~MatchesIsoDatePattern(t) THEN InvalidDate
             ELSE LET year == ToNumber(SubSeq(t, 1, 4))
                      month == ToNumber(SubSeq(t, 6, 7))
                      day == ToNumber(SubSeq(t, 9, 10))
                  IN  IF ~isValidDateParts(year, month, day) THEN InvalidDate
                      ELSE NewDate(year, month - 1, day)

normalizeDueDate(value) ==
    LET parsed == parseIsoDate(value)
    IN  IF ~parsed.ok THEN NULL ELSE toIsoDateFromLocalDate(parsed)

\* normalizeDueDate of tasks.js without the test of the calendar
tasks_normalizeDueDate_AnyDay(dueDate) ==
    IF ~IsString(dueDate) \/ ~MatchesIsoDatePattern(Trim(dueDate)) THEN NULL
    ELSE Trim(dueDate)

\* normalizeDueDate of tasks.js
tasks_normalizeDueDate(dueDate) ==
    IF ~IsString(dueDate) THEN NULL
    ELSE LET trimmed == Trim(dueDate)
         IN  IF ~MatchesIsoDatePattern(trimmed) THEN NULL
             ELSE LET year == ToNumber(SubSeq(trimmed, 1, 4))
                      month == ToNumber(SubSeq(trimmed, 6, 7))
                      day == ToNumber(SubSeq(trimmed, 9, 10))
                      candidate == NewDate(year, month - 1, day)
                  IN  IF \/ candidate.year # year
                         \/ candidate.month # month - 1
                         \/ candidate.date # day
                      THEN NULL
                      ELSE toIsoDate(year, month, day)

\* The index of the first "/" of s at or after position i, or 0.
RECURSIVE IndexOfSlash(_, _)
IndexOfSlash(s, i) ==
    IF i > Len(s) THEN 0 ELSE IF s[i] = "/" THEN i ELSE IndexOfSlash(s, i + 1)

\* LOCAL_DATE_INPUT_PATTERN = /^(\d{1,2})\/(\d{1,2})\/(\d{2,4})$/ : the three
\* groups, or <<>> when the string does not match.
MatchLocalDateInput(s) ==
    LET p == IndexOfSlash(s, 1)
        q == IF p = 0 THEN 0 ELSE IndexOfSlash(s, p + 1)
    IN  IF p = 0 \/ q = 0 THEN <<>>
        ELSE LET d == SubSeq(s, 1, p - 1)
                 m == SubSeq(s, p + 1, q - 1)
                 y == SubSeq(s, q + 1, Len(s))
             IN  IF /\ AllDigits(d) /\ Len(d) \in 1..2
                    /\ AllDigits(m) /\ Len(m) \in 1..2
                    /\ AllDigits(y) /\ Len(y) \in 2..4
                 THEN <<d, m, y>>
                 ELSE <<>>

parseDueDateInput(value) ==
    LET raw == IF IsString(value) THEN Trim(value) ELSE <<>>
    IN  IF Len(raw) = 0 THEN [status |-> "empty", value |-> NULL]
        ELSE LET match == MatchLocalDateInput(raw)
             IN  IF Len(match) = 0 THEN [status |-> "invalid", value |-> NULL]
                 ELSE LET day == ToNumber(match[1])
                          month == ToNumber(match[2])
                          y0 == ToNumber(match[3])
                          year == IF Len(match[3]) = 2
                                  THEN y0 + (IF y0 >= 70 THEN 1900 ELSE 2000)
                                  ELSE y0
                      IN  IF ~isValidDateParts(year, month, day)
                          THEN [status |-> "invalid", value |-> NULL]
                          ELSE [status |-> "valid", value |-> toIsoDate(year, month, day)]

\* The date formatted month first
formatDueDateInput_MonthFirst(isoDate) ==
    LET date == parseIsoDate(isoDate)
    IN  IF ~date.ok THEN <<>>
        ELSE PadStart(NumberToString(date.month + 1), 2) \o <<"/">>
                 \o PadStart(NumberToString(date.date), 2) \o <<"/">>
                 \o NumberToString(date.year)

formatDueDateInput(isoDate) ==
    LET date == parseIsoDate(isoDate)
    IN  IF ~date.ok THEN <<>>
        ELSE PadStart(NumberToString(date.date), 2) \o <<"/">>
                 \o PadStart(NumberToString(date.month + 1), 2) \o <<"/">>
                 \o NumberToString(date.year)

(***************************************************************************)
(* HTML (editor.js).  An HTML string is a sequence of tokens: a character, *)
(* the entity &nbsp;, a whole tag (tok), or the escaped text of a tag      *)
(* (esc).  A node is a record: a text node (tag "#text") holds one         *)
(* character or the literal text of one tag, a comment node has tag        *)
(* "#comment", an element has an upper-case tag name, attrs (whether it    *)
(* carries any attribute) and child nodes.                                 *)
(***************************************************************************)
TagTokens ==
    { [tok |-> "<p>", esc |-> "&lt;p&gt;", kind |-> "open", tag |-> "P", attrs |-> FALSE],
      [tok |-> "</p>", esc |-> "&lt;/p&gt;", kind |-> "close", tag |-> "P", attrs |-> FALSE],
      [tok |-> "<div>", esc |-> "&lt;div&gt;", kind |-> "open", tag |-> "DIV", attrs |-> FALSE],
      [tok |-> "</div>", esc |-> "&lt;/div&gt;", kind |-> "close", tag |-> "DIV", attrs |-> FALSE],
      [tok |-> "<b>", esc |-> "&lt;b&gt;", kind |-> "open", tag |-> "B", attrs |-> FALSE],
      [tok |-> "</b>", esc |-> "&lt;/b&gt;", kind |-> "close", tag |-> "B", attrs |-> FALSE],
      [tok |-> "<i>", esc |-> "&lt;i&gt;", kind |-> "open", tag |-> "I", attrs |-> FALSE],
      [tok |-> "</i>", esc |-> "&lt;/i&gt;", kind |-> "close", tag |-> "I", attrs |-> FALSE],
      [tok |-> "<u>", esc |-> "&lt;u&gt;", kind |-> "open", tag |-> "U", attrs |-> FALSE],
      [tok |-> "</u>", esc |-> "&lt;/u&gt;", kind |-> "close", tag |-> "U", attrs |-> FALSE],
      [tok |-> "<strong>", esc |-> "&lt;strong&gt;", kind |-> "open", tag |-> "STRONG", attrs |-> FALSE],
      [tok |-> "</strong>", esc |-> "&lt;/strong&gt;", kind |-> "close", tag |-> "STRONG", attrs |-> FALSE],
      [tok |-> "<em>", esc |-> "&lt;em&gt;", kind |-> "open", tag |-> "EM", attrs |-> FALSE],
      [tok |-> "</em>", esc |-> "&lt;/em&gt;", kind |-> "close", tag |-> "EM", attrs |-> FALSE],
      [tok |-> "<br>", esc |-> "&lt;br&gt;", kind |-> "open", tag |-> "BR", attrs |-> FALSE],
      [tok |-> "<span>", esc |-> "&lt;span&gt;", kind |-> "open", tag |-> "SPAN", attrs |-> FALSE],
      [tok |-> "</span>", esc |-> "&lt;/span&gt;", kind |-> "close", tag |-> "SPAN", attrs |-> FALSE],
      [tok |-> "<script>", esc |-> "&lt;script&gt;", kind |-> "open", tag |-> "SCRIPT", attrs |-> FALSE],
      [tok |-> "</script>", esc |-> "&lt;/script&gt;", kind |-> "close", tag |-> "SCRIPT", attrs |-> FALSE],
      [tok |-> "<p style>", esc |-> "&lt;p style&gt;", kind |-> "open", tag |-> "P", attrs |-> TRUE],
      [tok |-> "<b onclick>", esc |-> "&lt;b onclick&gt;", kind |-> "open", tag |-> "B", attrs |-> TRUE],
      [tok |-> "<img src>", esc |-> "&lt;img src&gt;", kind |-> "open", tag |-> "IMG", attrs |-> TRUE],
      [tok |-> "<!---->", esc |-> "&lt;!----&gt;", kind |-> "comment", tag |-> "#comment", attrs |-> FALSE] }

IsTagToken(t) == \E r \in TagTokens : r.tok = t

TagToken(t) == CHOOSE r \in TagTokens : r.tok = t

\* The character data a text token stands for
Unescape(t) ==
    IF t = "&nbsp;" THEN NBSP
    ELSE IF \E r \in TagTokens : r.esc = t THEN (CHOOSE r \in TagTokens : r.esc = t).tok
    ELSE t

\* The token that serializes one piece of character data
Escape(c) ==
    IF c = NBSP THEN "&nbsp;"
    ELSE IF IsTagToken(c) THEN TagToken(c).esc
    ELSE c

VoidTags == {"BR", "IMG"}

TextNode(c) == [tag |-> "#text", attrs |-> FALSE, kids |-> <<>>, text |-> c]

Element(tag, attrs, kids) == [tag |-> tag, attrs |-> attrs, kids |-> kids, text |-> ""]

\* The open elements of the tree builder: the last frame is the current node.
CloseTop(stack) ==
    LET n == Len(stack)
        top == stack[n]
        below == stack[n - 1]
    IN  SubSeq(stack, 1, n - 2)
            \o <<[below EXCEPT !.kids = Append(@, Element(top.tag, top.attrs, top.kids))]>>

IsOpen(stack, tag) == \E i \in 2..Len(stack) : stack[i].tag = tag

\* Pops the open elements down to and including the innermost element `tag`.
RECURSIVE CloseThrough(_, _)
CloseThrough(stack, tag) ==
    IF stack[Len(stack)].tag = tag THEN CloseTop(stack)
    ELSE CloseThrough(CloseTop(stack), tag)

AppendNode(stack, node) ==
    [stack EXCEPT ![Len(stack)].kids = Append(@, node)]

\* The HTML parser's tree construction, for the tags of TagTokens: a start tag
\* p or div closes an open p; an end tag closes through its open element; an end
\* tag with no open element is ignored, except </p>, which makes an empty p; the
\* content of script is text; unclosed elements are closed at the end.
RECURSIVE BuildTree(_, _, _)
BuildTree(html, i, stack) ==
    IF i > Len(html)
    THEN IF Len(stack) = 1 THEN stack[1].kids ELSE BuildTree(html, i, CloseTop(stack))
    ELSE LET t == html[i]
             top == stack[Len(stack)]
         IN  IF top.tag = "SCRIPT" /\ t # "</script>"
             THEN BuildTree(html, i + 1, AppendNode(stack, TextNode(t)))
             ELSE IF ~IsTagToken(t)
             THEN BuildTree(html, i + 1,
                      AppendNode(stack, TextNode(Unescape(t))))
             ELSE LET r == TagToken(t)
                  IN  IF r.kind = "comment"
                      THEN BuildTree(html, i + 1,
                               AppendNode(stack, Element("#comment", FALSE, <<>>)))
                      ELSE IF r.kind = "open"
                      THEN LET s1 == IF r.tag \in {"P", "DIV"} /\ IsOpen(stack, "P")
                                     THEN CloseThrough(stack, "P")
                                     ELSE stack
                           IN  IF r.tag \in VoidTags
                               THEN BuildTree(html, i + 1,
                                        AppendNode(s1, Element(r.tag, r.attrs, <<>>)))
                               ELSE BuildTree(html, i + 1,
                                        Append(s1, Element(r.tag, r.attrs, <<>>)))
                      ELSE IF IsOpen(stack, r.tag)
                      THEN BuildTree(html, i + 1, CloseThrough(stack, r.tag))
                      ELSE IF r.tag = "P"
                      THEN BuildTree(html, i + 1,
                               AppendNode(stack, Element("P", FALSE, <<>>)))
                      ELSE BuildTree(html, i + 1, stack)

\* The child nodes of the element whose innerHTML is html.
ParseHTML(html) == BuildTree(html, 1, <<Element("#root", FALSE, <<>>)>>)

OpenTagToken(tag) ==
    (CHOOSE r \in TagTokens : r.kind = "open" /\ r.tag = tag /\ ~r.attrs).tok

CloseTagToken(tag) ==
    (CHOOSE r \in TagTokens : r.kind = "close" /\ r.tag = tag).tok

\* Element.innerHTML (read) of an element with these child nodes.  Only
\* attribute-free elements are serialized by the program.
RECURSIVE SerializeNodes(_)
SerializeNodes(nodes) ==
    IF Len(nodes) = 0 THEN <<>>
    ELSE LET n == Head(nodes)
             this == IF n.tag = "#text" THEN <<Escape(n.text)>>
                     ELSE IF n.tag = "#comment" THEN <<"<!---->">>
                     ELSE IF n.tag \in VoidTags THEN <<OpenTagToken(n.tag)>>
                     ELSE <<OpenTagToken(n.tag)>> \o SerializeNodes(n.kids)
                              \o <<CloseTagToken(n.tag)>>
         IN  this \o SerializeNodes(Tail(nodes))

\* Node.textContent of an element with these child nodes
RECURSIVE TextContent(_)
TextContent(nodes) ==
    IF Len(nodes) = 0 THEN <<>>
    ELSE LET n == Head(nodes)
             this == IF n.tag = "#text" THEN <<n.text>>
                     ELSE IF n.tag = "#comment" THEN <<>>
                     ELSE TextContent(n.kids)
         IN  this \o TextContent(Tail(nodes))

ALLOWED_TAGS == {"B", "I", "U", "BR", "STRONG", "EM", "P", "DIV"}

\* No normalization of the allowed tags
TAG_NORMALIZATION_None(tag) == tag

TAG_NORMALIZATION(tag) ==
    IF tag = "STRONG" THEN "B"
    ELSE IF tag = "EM" THEN "I"
    ELSE IF tag = "DIV" THEN "P"
    ELSE tag

\* sanitizeNode returns a node or a document fragment: here always the sequence
\* of nodes that appendChild adds.  A text node without data adds nothing that
\* serialization or textContent can see.
RECURSIVE sanitizeNode(_)
RECURSIVE SanitizeChildren(_)
sanitizeNode(node) ==
    IF node.tag = "#text" THEN <<TextNode(node.text)>>
    ELSE IF node.tag = "#comment" THEN <<>>
    ELSE LET originalTag == node.tag
             normalizedTag == TAG_NORMALIZATION(originalTag)
         IN  IF originalTag \notin ALLOWED_TAGS THEN SanitizeChildren(node.kids)
             ELSE IF normalizedTag = "BR" THEN <<Element("BR", FALSE, <<>>)>>
             ELSE <<Element(normalizedTag, FALSE, SanitizeChildren(node.kids))>>

SanitizeChildren(nodes) ==
    IF Len(nodes) = 0 THEN <<>>
    ELSE sanitizeNode(Head(nodes)) \o SanitizeChildren(Tail(nodes))

\* parseFromString(`<div>${html}</div>`): root is the first element of the
\* body, the div that the template opens; an end tag div inside html closes it.
sanitizeEditorHTML(html) ==
    LET parsed == ParseHTML(<<"<div>">> \o html \o <<"</div>">>)
        root == parsed[1]
        safeRoot == SanitizeChildren(root.kids)
    IN  Trim(SerializeNodes(safeRoot))

getTextFromHTML(html) ==
    LET temp == ParseHTML(html)
        text == TextContent(temp)
    IN  Trim([i \in 1..Len(text) |-> IF text[i] = NBSP THEN " " ELSE text[i]])

getEditorContent(innerHTML) ==
    LET sanitizedHtml == sanitizeEditorHTML(innerHTML)
    IN  [html |-> sanitizedHtml, plainText |-> getTextFromHTML(sanitizedHtml)]

\* isEditorEmpty on the markup, not on the plain text
isEditorEmpty_Markup(innerHTML) == Len(innerHTML) = 0

isEditorEmpty(innerHTML) == Len(getEditorContent(innerHTML).plainText) = 0

(***************************************************************************)
(* Tasks (tasks.js) and the store (app.js).  A task is the record of its   *)
(* fields (sourceType and projectId are constants and left out); a task    *)
(* record of a parsed snapshot has the same fields, each possibly of the   *)
(* wrong type, and isObject tells whether the array entry is an object.    *)
(***************************************************************************)
\* The local calendar date at clock value t: the session starts on 2024-02-29.
LocalDate(t) == NewDate(2024, 1, 29 + (t \div 86400000))

\* Date.prototype.toISOString of the clock value t
ToISOString(t) == <<"T">> \o NumberToString(t)

\* new Date(string): the local calendar date of the instant that the string
\* names, or an invalid Date when the string is no date-time string.
NewDateFromString(s) ==
    IF Len(s) >= 2 /\ s[1] = "T" /\ AllDigits(Tail(s))
    THEN LocalDate(ToNumber(Tail(s)))
    ELSE InvalidDate

\* a < b of two strings of digits and hyphens: the order of the code units
RECURSIVE StringLess(_, _)
StringLess(a, b) ==
    LET CharCode(c) == IF c = "-" THEN 45 ELSE 48 + DigitValue(c)
    IN  IF Len(b) = 0 THEN FALSE
        ELSE IF Len(a) = 0 THEN TRUE
        ELSE IF Head(a) # Head(b) THEN CharCode(Head(a)) < CharCode(Head(b))
        ELSE StringLess(Tail(a), Tail(b))

normalizeCompletedDate(completedAt) ==
    IF ~IsString(completedAt) \/ Len(Trim(completedAt)) = 0 THEN NULL
    ELSE LET date == NewDateFromString(completedAt)
         IN  IF ~date.ok THEN NULL ELSE toIsoDateFromLocalDate(date)

\* getCompletionStatus: "on-time", "late" or null
getCompletionStatus_Strict(dueDate, completedAt) ==
    LET normalizedDueDate == tasks_normalizeDueDate(dueDate)
        normalizedCompletedDate == normalizeCompletedDate(completedAt)
    IN  IF ~Truthy(normalizedDueDate) \/ ~Truthy(normalizedCompletedDate) THEN NULL
        ELSE IF StringLess(normalizedCompletedDate, normalizedDueDate)
        THEN <<"on-time">> ELSE <<"late">>

getCompletionStatus(dueDate, completedAt) ==
    LET normalizedDueDate == tasks_normalizeDueDate(dueDate)
        normalizedCompletedDate == normalizeCompletedDate(completedAt)
    IN  IF ~Truthy(normalizedDueDate) \/ ~Truthy(normalizedCompletedDate) THEN NULL
        ELSE IF ~StringLess(normalizedDueDate, normalizedCompletedDate)
        THEN <<"on-time">> ELSE <<"late">>

isTaskOverdue_OrToday(task, clock) ==
    /\ ~task.completed
    /\ Truthy(tasks_normalizeDueDate(task.dueDate))
    /\ ~StringLess(toIsoDateFromLocalDate(LocalDate(clock)),
                   tasks_normalizeDueDate(task.dueDate))

\* isTaskOverdue at clock value clock (new Date() is the clock)
isTaskOverdue(task, clock) ==
    IF task.completed THEN FALSE
    ELSE LET normalizedDueDate == tasks_normalizeDueDate(task.dueDate)
         IN  IF ~Truthy(normalizedDueDate) THEN FALSE
             ELSE StringLess(normalizedDueDate, toIsoDateFromLocalDate(LocalDate(clock)))

\* createTaskId: the n-th id produced; ids are never repeated.
createTaskId(n) == <<"u">> \o NumberToString(n)

createTask(contentHtml, template, dueDate, id, clock) ==
    LET normalizedTemplate ==
            IF IsString(template) /\ Len(Trim(template)) > 0 THEN Trim(template) ELSE NULL
        normalizedDueDate == tasks_normalizeDueDate(dueDate)
    IN  [id |-> id,
         contentHtml |-> contentHtml,
         template |-> normalizedTemplate,
         dueDate |-> normalizedDueDate,
         createdAt |-> ToISOString(clock),
         completed |-> FALSE,
         completedAt |-> NULL]

NoTask ==
    [id |-> NULL, contentHtml |-> <<>>, template |-> NULL, dueDate |-> NULL,
     createdAt |-> NULL, completed |-> FALSE, completedAt |-> NULL]

\* sanitizeTask that accepts a record whose contentHtml is blank
sanitizeTask_KeepBlank(task, list, stripLegacyGeneral, clock) ==
    IF \/ ~task.isObject
       \/ ~IsString(task.id)
       \/ Len(Trim(task.id)) = 0
       \/ ~IsString(task.contentHtml)
    THEN [task |-> NoTask, list |-> list]
    ELSE [task |-> [id |-> task.id, contentHtml |-> task.contentHtml, template |-> NULL,
                    dueDate |-> NULL, createdAt |-> ToISOString(clock),
                    completed |-> task.completed = TRUE, completedAt |-> NULL],
          list |-> list]

\* sanitizeTask returns a task or null (NoTask) and may push onto templates:
\* [task |-> the value returned, list |-> the array afterwards].
sanitizeTask(task, list, stripLegacyGeneral, clock) ==
    IF ~task.isObject THEN [task |-> NoTask, list |-> list]
    ELSE IF ~IsString(task.id) \/ Len(Trim(task.id)) = 0
    THEN [task |-> NoTask, list |-> list]
    ELSE IF ~IsString(task.contentHtml) \/ Len(Trim(task.contentHtml)) = 0
    THEN [task |-> NoTask, list |-> list]
    ELSE LET t0 == IF IsString(task.template)
                   THEN sanitizeTemplateName(task.template)
                   ELSE NULL
             t1 == IF /\ Truthy(t0)
                      /\ stripLegacyGeneral
                      /\ getTemplateKey(t0) = getTemplateKey(LEGACY_AUTO_TEMPLATE)
                   THEN NULL
                   ELSE t0
             pushed == IF Truthy(t1)
                       THEN pushUniqueTemplate(list, t1)
                       ELSE [list |-> list, value |-> t1]
             completed == task.completed = TRUE
         IN  [task |->
                  [id |-> task.id,
                   contentHtml |-> task.contentHtml,
                   template |-> pushed.value,
                   dueDate |-> normalizeDueDate(task.dueDate),
                   createdAt |-> IF IsString(task.createdAt)
                                 THEN task.createdAt
                                 ELSE ToISOString(clock),
                   completed |-> completed,
                   completedAt |-> IF completed /\ IsString(task.completedAt)
                                   THEN task.completedAt
                                   ELSE NULL],
              list |-> pushed.list]

resolveActiveView(view) ==
    IF view = VIEW_MODE_COMPLETED THEN VIEW_MODE_COMPLETED ELSE VIEW_MODE_TASKS

resolveActiveFilter(filter, list) ==
    IF filter = FILTER_MODE_ALL \/ filter = FILTER_MODE_NONE THEN filter
    ELSE LET template == findTemplateValue(list, filter)
         IN  IF Truthy(template) THEN template ELSE FILTER_MODE_ALL

toFilterValue(filter) ==
    IF filter = FILTER_MODE_ALL THEN FILTER_VALUE_ALL
    ELSE IF filter = FILTER_MODE_NONE THEN FILTER_VALUE_NONE
    ELSE FILTER_VALUE_TEMPLATE_PREFIX \o filter

fromFilterValue(filterValue, list) ==
    IF filterValue = FILTER_VALUE_ALL THEN FILTER_MODE_ALL
    ELSE IF filterValue = FILTER_VALUE_NONE THEN FILTER_MODE_NONE
    ELSE IF ~StartsWith(filterValue, FILTER_VALUE_TEMPLATE_PREFIX) THEN FILTER_MODE_ALL
    ELSE LET templateName ==
                 SubSeq(filterValue, Len(FILTER_VALUE_TEMPLATE_PREFIX) + 1, Len(filterValue))
             found == findTemplateValue(list, templateName)
         IN  IF Truthy(found) THEN found ELSE FILTER_MODE_ALL

\* The store as one value: the object `state` of initApp.
State(ts, tpls, cTemplate, cDueDate, filter, view) ==
    [tasks |-> ts, templates |-> tpls, composerTemplate |-> cTemplate,
     composerDueDate |-> cDueDate, activeFilter |-> filter, activeView |-> view]

CurrentState ==
    State(tasks, templates, composerTemplate, composerDueDate, activeFilter, activeView)

\* loadState falling back to the view it was last left in
fallback_LastView == State(<<>>, <<>>, NULL, NULL, FILTER_MODE_ALL, VIEW_MODE_COMPLETED)

fallback == State(<<>>, <<>>, NULL, NULL, FILTER_MODE_ALL, VIEW_MODE_TASKS)

\* The templates loop without the test for the legacy label
RECURSIVE LoadTemplates_KeepLegacy(_, _, _, _)
LoadTemplates_KeepLegacy(names, i, isLegacyData, list) ==
    IF i > Len(names) THEN list
    ELSE LoadTemplates_KeepLegacy(names, i + 1, isLegacyData,
             IF Len(sanitizeTemplateName(names[i])) = 0 THEN list
             ELSE pushUniqueTemplate(list, names[i]).list)

\* parsed.templates.forEach(...) of loadState, from entry i on
RECURSIVE LoadTemplates(_, _, _, _)
LoadTemplates(names, i, isLegacyData, list) ==
    IF i > Len(names) THEN list
    ELSE LET cleaned == sanitizeTemplateName(names[i])
         IN  IF Len(cleaned) = 0 THEN LoadTemplates(names, i + 1, isLegacyData, list)
             ELSE IF /\ isLegacyData
                     /\ getTemplateKey(cleaned) = getTemplateKey(LEGACY_AUTO_TEMPLATE)
             THEN LoadTemplates(names, i + 1, isLegacyData, list)
             ELSE LoadTemplates(names, i + 1, isLegacyData,
                      pushUniqueTemplate(list, names[i]).list)

\* parsed.tasks.map(sanitizeTask).filter(not null) of loadState, from entry i on:
\* [tasks |-> the tasks kept, list |-> the templates afterwards]
RECURSIVE LoadTasks(_, _, _, _, _, _)
LoadTasks(raws, i, isLegacyData, list, acc, clock) ==
    IF i > Len(raws) THEN [tasks |-> acc, list |-> list]
    ELSE LET r == sanitizeTask(raws[i], list, isLegacyData, clock)
         IN  LoadTasks(raws, i + 1, isLegacyData, r.list,
                 IF r.task = NoTask THEN acc ELSE Append(acc, r.task), clock)

\* The localStorage entry: kind is "missing" (getItem returns null or ""),
\* "throws" (getItem throws), "corrupt" (no JSON), "json-null" (the JSON
\* null), "scalar" (a JSON number, string or boolean: every property read
\* gives undefined) or "object"; an object's tasks and templates are arrays
\* or not.
Stored(kind, version, rawTasks, tasksIsArray, rawTemplates, templatesIsArray, filter, view) ==
    [kind |-> kind, version |-> version, tasks |-> rawTasks, tasksIsArray |-> tasksIsArray,
     templates |-> rawTemplates, templatesIsArray |-> templatesIsArray,
     activeFilter |-> filter, activeView |-> view]

loadState(raw, clock) ==
    IF raw.kind \notin {"object", "scalar"} THEN fallback
    ELSE LET isLegacyData == raw.version # STORAGE_VERSION
             list0 == IF raw.templatesIsArray
                      THEN LoadTemplates(raw.templates, 1, isLegacyData, <<>>)
                      ELSE <<>>
             loaded == IF raw.tasksIsArray
                       THEN LoadTasks(raw.tasks, 1, isLegacyData, list0, <<>>, clock)
                       ELSE [tasks |-> <<>>, list |-> list0]
         IN  State(loaded.tasks, loaded.list, NULL, NULL, FILTER_MODE_ALL,
                   resolveActiveView(raw.activeView))

\* JSON.stringify of a task, as JSON.parse reads it back
TaskToJson(task) ==
    [isObject |-> TRUE, id |-> task.id, contentHtml |-> task.contentHtml,
     template |-> task.template, dueDate |-> task.dueDate, createdAt |-> task.createdAt,
     completed |-> task.completed, completedAt |-> task.completedAt]

\* The entry saveState writes
saveState(st) ==
    Stored("object", STORAGE_VERSION,
           [i \in 1..Len(st.tasks) |-> TaskToJson(st.tasks[i])], TRUE,
           st.templates, TRUE, st.activeFilter, st.activeView)

getTasksForActiveView(st) ==
    IF st.activeView = VIEW_MODE_COMPLETED
    THEN SelectSeq(st.tasks, LAMBDA task : task.completed)
    ELSE SelectSeq(st.tasks, LAMBDA task : ~task.completed)

getVisibleTasks_NewestFirst(st) ==
    LET tabTasks == getTasksForActiveView(st)
        shown == IF st.activeFilter = FILTER_MODE_ALL THEN tabTasks
                 ELSE IF st.activeFilter = FILTER_MODE_NONE
                 THEN SelectSeq(tabTasks,
                          LAMBDA task : ~(IsString(task.template) /\ Len(Trim(task.template)) > 0))
                 ELSE SelectSeq(tabTasks, LAMBDA task : task.template = st.activeFilter)
    IN  [i \in 1..Len(shown) |-> shown[Len(shown) + 1 - i]]

getVisibleTasks(st) ==
    LET tabTasks == getTasksForActiveView(st)
    IN  IF st.activeFilter = FILTER_MODE_ALL THEN tabTasks
        ELSE IF st.activeFilter = FILTER_MODE_NONE
        THEN SelectSeq(tabTasks,
                 LAMBDA task : ~(IsString(task.template) /\ Len(Trim(task.template)) > 0))
        ELSE SelectSeq(tabTasks, LAMBDA task : task.template = st.activeFilter)

\* deleteTemplateFromState without its early return
deleteTemplateFromState_NoReturn(st, templateName) ==
    State(st.tasks, st.templates, NULL, st.composerDueDate, FILTER_MODE_ALL,
          st.activeView)

deleteTemplateFromState_KeepFilter(st, templateName) ==
    LET template == findTemplateValue(st.templates, templateName)
    IN  IF ~Truthy(template) THEN st
        ELSE LET templateKey == getTemplateKey(template)
                 newTemplates ==
                     SelectSeq(st.templates, LAMBDA e : getTemplateKey(e) # templateKey)
                 newTasks ==
                     [i \in 1..Len(st.tasks) |->
                         IF ~IsString(st.tasks[i].template) THEN st.tasks[i]
                         ELSE IF getTemplateKey(st.tasks[i].template) # templateKey
                         THEN st.tasks[i]
                         ELSE [st.tasks[i] EXCEPT !.template = NULL]]
             IN  State(newTasks, newTemplates, st.composerTemplate, st.composerDueDate,
                       st.activeFilter, st.activeView)

deleteTemplateFromState(st, templateName) ==
    LET template == findTemplateValue(st.templates, templateName)
    IN  IF ~Truthy(template) THEN st
        ELSE LET templateKey == getTemplateKey(template)
                 newTemplates ==
                     SelectSeq(st.templates, LAMBDA e : getTemplateKey(e) # templateKey)
                 newTasks ==
                     [i \in 1..Len(st.tasks) |->
                         IF ~IsString(st.tasks[i].template) THEN st.tasks[i]
                         ELSE IF getTemplateKey(st.tasks[i].template) # templateKey
                         THEN st.tasks[i]
                         ELSE [st.tasks[i] EXCEPT !.template = NULL]]
                 newComposer ==
                     IF /\ Truthy(st.composerTemplate)
                        /\ getTemplateKey(st.composerTemplate) = templateKey
                     THEN NULL
                     ELSE st.composerTemplate
                 newFilter ==
                     IF /\ st.activeFilter # FILTER_MODE_ALL
                        /\ st.activeFilter # FILTER_MODE_NONE
                        /\ getTemplateKey(st.activeFilter) = templateKey
                     THEN FILTER_MODE_ALL
                     ELSE st.activeFilter
             IN  State(newTasks, newTemplates, newComposer, st.composerDueDate,
                       newFilter, st.activeView)

\* getEmptyState: the message for an empty list; null is the record whose
\* title and copy are null (emptyState?.title, emptyState?.copy)
getEmptyState(st, visibleTasks) ==
    IF st.activeView = VIEW_MODE_COMPLETED /\ Len(visibleTasks) = 0
    THEN [title |-> <<"No completed tasks yet">>, copy |-> <<>>]
    ELSE IF Len(getTasksForActiveView(st)) = 0 THEN [title |-> NULL, copy |-> NULL]
    ELSE IF st.activeFilter = FILTER_MODE_NONE /\ Len(visibleTasks) = 0
    THEN [title |-> <<"No untemplated tasks">>,
          copy |-> <<"Create a task without a template or switch filter.">>]
    ELSE IF st.activeFilter # FILTER_MODE_ALL /\ Len(visibleTasks) = 0
    THEN [title |-> <<"No ">> \o st.activeFilter \o <<" tasks">>,
          copy |-> <<"Create a task with this template or switch filter.">>]
    ELSE [title |-> NULL, copy |-> NULL]

\* renderEmptyState: the heading and the paragraph of the empty-state article
renderEmptyState(emptyState) ==
    [title |-> IF Truthy(emptyState.title) THEN emptyState.title
               ELSE <<"No tasks yet">>,
     copy |-> IF emptyState.copy # NULL THEN emptyState.copy ELSE <<>>]

\* renderTasks: one card per visible task (createTaskElement), none marked
\* is-completing; a completed task's card is is-on-time, is-late or neither,
\* and a card is is-overdue or not.
renderTasks(visible) ==
    [i \in 1..Len(visible) |->
        [taskId |-> visible[i].id,
         isCompleting |-> FALSE,
         completionStatus |-> IF visible[i].completed
                              THEN getCompletionStatus(visible[i].dueDate,
                                                       visible[i].completedAt)
                              ELSE NULL,
         isOverdue |-> isTaskOverdue(visible[i], now)]]

\* renderApp that hands every task of the store to renderTasks
renderApp_AllTasks(st) == renderTasks(st.tasks)

\* The task cards renderApp leaves in #task-list
renderApp(st) == renderTasks(getVisibleTasks(st))

\* state.tasks.findIndex(task => task.id === taskId): 0 stands for -1
findIndex(ts, taskId) ==
    IF \E i \in 1..Len(ts) : ts[i].id = taskId
    THEN CHOOSE i \in 1..Len(ts) :
             ts[i].id = taskId /\ \A j \in 1..(i - 1) : ts[j].id # taskId
    ELSE 0

(***************************************************************************)
(* Inputs: what the user types or clicks, and the snapshots found in       *)
(* localStorage at start-up.                                               *)
(***************************************************************************)
Work == <<"W", "o", "r", "k">>
WorkLower == <<"w", "o", "r", "k">>
Home == <<"H", "o", "m", "e">>

\* 31 letters, a space and one more letter: one character longer than
\* TEMPLATE_NAME_MAX_LENGTH, with the space as its 32nd character.
LongName == [i \in 1..33 |-> IF i = 32 THEN " " ELSE "a"]

\* What the user may type into the add-template input
TemplateAddInputs == { Work, WorkLower, <<"[", " ", "]">> }

\* Names typed into the add-template input that read like a filter mode
FilterWordInputs == { <<"a", "l", "l">>, <<"N", "o", "n", "e">> }

\* Labels deleteTemplate may be called with that no menu row carries
LabelInputs == { Home, WorkLower, <<"Z">>, <<"[", "]">> }

\* What the editor may hold (editorEl.innerHTML) when Enter is pressed
EditorInputs ==
    { <<"<p>", "<br>", "</p>">>,
      <<"&nbsp;", " ">>,
      <<"<div>", "x", "</div>">> }

\* The longest markup, in tokens, that the editor is tried with
MaxHtmlLen == 3

\* What the editor may hold: every markup of up to MaxHtmlLen tokens, bare and
\* inside an element script, span or em, and a b inside a script and a span
EditorContents ==
    LET tokens == { "x", "<b onclick>", "</b>", "<div>", "</div>", "<span>", "</span>",
                    "<br>", "<strong>", "<img src>" }
        markup == UNION { [1..n -> tokens] : n \in 0..MaxHtmlLen }
    IN  markup
        \cup { <<"<script>">> \o h \o <<"</script>">> : h \in markup }
        \cup { <<"<span>">> \o h \o <<"</span>">> : h \in markup }
        \cup { <<"<em>">> \o h \o <<"</em>">> : h \in markup }
        \cup { <<"<script>", "<b>", "x", "</b>", "</script>">>,
               <<"<span>", "<b>", "x", "</b>", "</span>">> }

\* What the user may type into the due-date input
DueDateInputs ==
    { <<>>,
      <<"2", "9", "/", "0", "2", "/", "2", "4">>,
      <<"3", "0", "/", "0", "2", "/", "2", "0", "2", "3">> }

\* A day button of the calendar grid carries toIsoDateFromLocalDate of its day.
CalendarDates == { toIsoDateFromLocalDate(NewDate(2024, 2, 1)) }

RawTask(id, contentHtml, template, completed, completedAt) ==
    [isObject |-> TRUE, id |-> id, contentHtml |-> contentHtml, template |-> template,
     dueDate |-> NULL, createdAt |-> ToISOString(0), completed |-> completed,
     completedAt |-> completedAt]

TaskA == RawTask(<<"a">>, <<"x">>, Work, FALSE, NULL)
TaskB == RawTask(<<"b">>, <<"<p>", "y", "</p>">>, NULL, TRUE, ToISOString(0))

\* The localStorage entries found at start-up
StoredValues ==
    { Stored(k, 0, <<>>, FALSE, <<>>, FALSE, NOTSTRING, "")
        : k \in {"missing", "throws", "corrupt", "json-null"} }
    \cup
    { Stored("object", STORAGE_VERSION, <<TaskA, TaskB>>, TRUE, <<Work, Home>>, TRUE,
             FILTER_MODE_ALL, VIEW_MODE_TASKS),
      \* completed without a completedAt string, saved in the completed view
      Stored("object", STORAGE_VERSION,
             <<RawTask(<<"a">>, <<"x">>, NULL, TRUE, NOTSTRING)>>, TRUE, <<>>, TRUE,
             FILTER_MODE_ALL, VIEW_MODE_COMPLETED),
      \* two records with the same id
      Stored("object", STORAGE_VERSION,
             <<TaskA, RawTask(<<"a">>, <<"y">>, NULL, FALSE, NULL)>>, TRUE, <<>>, TRUE,
             FILTER_MODE_ALL, VIEW_MODE_TASKS),
      \* a template that cleans to the empty string
      Stored("object", STORAGE_VERSION,
             <<RawTask(<<"a">>, <<"x">>, <<"[", "]">>, FALSE, NULL)>>, TRUE, <<>>, TRUE,
             FILTER_MODE_ALL, VIEW_MODE_TASKS),
      \* malformed records between well-formed ones, and two over-long labels
      Stored("object", STORAGE_VERSION,
             <<RawTask(<<" ">>, <<"x">>, NULL, FALSE, NULL), TaskB,
               [TaskA EXCEPT !.isObject = FALSE]>>, TRUE,
             <<LongName, LongName>>, TRUE, FILTER_MODE_ALL, VIEW_MODE_TASKS) }

\* The label of the automatic template of earlier versions, as stored
General == <<"G", "e", "n", "e", "r", "a", "l">>

\* The tasks arrays of the entries a page load may find
LoadTaskLists ==
    { <<>>,
      <<TaskA, TaskB>>,
      \* a record that is no object, records without id or content, blank ones
      <<[TaskA EXCEPT !.isObject = FALSE],
        TaskB,
        [TaskA EXCEPT !.id = NOTSTRING],
        [TaskA EXCEPT !.id = <<" ">>],
        TaskA,
        [TaskB EXCEPT !.contentHtml = NOTSTRING],
        [TaskB EXCEPT !.contentHtml = <<" ", " ">>]>>,
      \* tasks of the automatic template
      <<[TaskA EXCEPT !.template = General], [TaskB EXCEPT !.template = Home]>>,
      \* a template that is no string, a completedAt that is no string
      <<[TaskA EXCEPT !.template = NOTSTRING], [TaskB EXCEPT !.completedAt = NOTSTRING]>> }

\* The templates arrays of the entries a page load may find
LoadTemplateLists ==
    { <<>>,
      <<Work, Home>>,
      <<LEGACY_AUTO_TEMPLATE, Work>>,
      <<Home, NOTSTRING, General, <<"[", "]">>, WorkLower>> }

\* The localStorage entries a page load may find
LoadValues ==
    { Stored(k, 0, <<>>, FALSE, <<>>, FALSE, NOTSTRING, "")
        : k \in {"missing", "throws", "corrupt", "json-null", "scalar"} }
    \cup
    { Stored("object", v, ts, TRUE, tpls, TRUE, FILTER_MODE_NONE, view)
        : v \in {STORAGE_VERSION - 1, STORAGE_VERSION}, ts \in LoadTaskLists,
          tpls \in LoadTemplateLists, view \in {VIEW_MODE_TASKS, VIEW_MODE_COMPLETED} }
    \cup
    { Stored("object", STORAGE_VERSION, <<>>, FALSE, <<>>, FALSE, NOTSTRING, "") }
    \cup
    \* one task with a due date of any kind
    { Stored("object", STORAGE_VERSION, <<[TaskA EXCEPT !.dueDate = d]>>, TRUE, <<>>, TRUE,
             FILTER_MODE_ALL, VIEW_MODE_TASKS)
        : d \in
          { NOTSTRING,
            <<"2", "0", "2", "4", "-", "0", "2", "-", "2", "9">>,
            <<"2", "0", "2", "3", "-", "0", "2", "-", "2", "9">>,
            <<"2", "0", "2", "3", "-", "0", "2", "-", "3", "0">>,
            <<"1", "9", "0", "0", "-", "0", "2", "-", "2", "9">>,
            <<"2", "0", "0", "0", "-", "0", "2", "-", "2", "9">>,
            <<"2", "0", "2", "4", "-", "0", "4", "-", "3", "1">>,
            <<"2", "0", "2", "4", "-", "1", "3", "-", "0", "1">>,
            <<"2", "0", "2", "4", "-", "0", "0", "-", "1", "0">>,
            <<"2", "0", "2", "4", "-", "0", "1", "-", "0", "0">>,
            <<"0", "0", "5", "0", "-", "0", "1", "-", "0", "1">>,
            <<"0", "0", "9", "9", "-", "1", "2", "-", "3", "1">>,
            <<"0", "1", "0", "0", "-", "0", "1", "-", "0", "1">>,
            <<" ", "2", "0", "2", "4", "-", "0", "2", "-", "2", "9", " ">>,
            <<"2", "0", "2", "4", "-", "2", "-", "1">>,
            <<"2", "9", "/", "0", "2", "/", "2", "0", "2", "4">>,
            <<>>,
            <<"2", "0", "2", "4", "-", "0", "2", "-", "2", "9", "T">>,
            <<"9", "9", "9", "9", "-", "1", "2", "-", "3", "1">>,
            <<"2", "0", "2", "4", "-", "0", "2", "-", "2", "8">>,
            <<"2", "0", "2", "4", "-", "0", "3", "-", "0", "1">> } }
    \cup
    \* a filter that is a label of the set, a view of no kind
    { Stored("object", STORAGE_VERSION, <<TaskA, TaskB>>, TRUE, <<Work, Home>>, TRUE, f, view)
        : f \in {Work, Home, <<"Z">>},
          view \in {"archive", VIEW_MODE_TASKS, VIEW_MODE_COMPLETED} }
    \cup
    \* one task with a content of any kind
    { Stored("object", STORAGE_VERSION, <<[TaskA EXCEPT !.contentHtml = c]>>, TRUE, <<>>, TRUE,
             FILTER_MODE_ALL, VIEW_MODE_TASKS)
        : c \in { <<"<b>", "x", "</b>">>,
                  <<"<script>", "x", "</script>">>,
                  <<"<b onclick>", "x", "</b>">>,
                  <<"<span>", "x", "</span>">>,
                  <<"<p>", "</p>">>,
                  <<"<p>", "<br>", "</p>">>,
                  <<"<p>", NBSP, "</p>">> } }
    \cup
    \* one completed task, with a due date and a completion time of any kind
    { Stored("object", STORAGE_VERSION, <<[TaskB EXCEPT !.dueDate = d, !.completedAt = c]>>,
             TRUE, <<>>, TRUE, FILTER_MODE_ALL, VIEW_MODE_COMPLETED)
        : d \in
          { NULL,
            <<"2", "0", "2", "3", "-", "0", "2", "-", "2", "9">>,
            <<"2", "0", "2", "3", "-", "1", "2", "-", "3", "1">>,
            <<"2", "0", "2", "4", "-", "0", "2", "-", "2", "8">>,
            <<"2", "0", "2", "4", "-", "0", "2", "-", "2", "9">>,
            <<"2", "0", "2", "4", "-", "0", "3", "-", "0", "1">>,
            <<"2", "0", "2", "5", "-", "0", "1", "-", "0", "1">> },
          c \in
          { NULL, NOTSTRING, <<>>, <<" ", " ">>, <<"a", "b", "c">>,
            ToISOString(0), ToISOString(86399999), ToISOString(86400000) } }

(***************************************************************************)
(* The pending-timer registry (a Map) and the history variables.           *)
(***************************************************************************)
EmptyMap == [k \in {} |-> 0]

MapSet(m, k, v) == [x \in (DOMAIN m) \cup {k} |-> IF x = k THEN v ELSE m[x]]

MapDelete(m, k) == [x \in (DOMAIN m) \ {k} |-> m[x]]

Event(op, id, label, html, timer) ==
    [op |-> op, id |-> id, label |-> label, html |-> html, timer |-> timer]

(***************************************************************************)
(* Init: initApp has run: loadState, saveState, renderApp.                 *)
(***************************************************************************)
Init ==
    \E raw \in StoredValues :
        LET st == loadState(raw, 0)
        IN  /\ tasks = st.tasks
            /\ templates = st.templates
            /\ composerTemplate = st.composerTemplate
            /\ composerDueDate = normalizeDueDate(st.composerDueDate)
            /\ activeFilter = st.activeFilter
            /\ activeView = st.activeView
            /\ storage = saveState(st)
            /\ setItemThrows = FALSE
            /\ pendingCompletionTimers = EmptyMap
            /\ timers = {}
            /\ nextTimerId = 1
            /\ now = 0
            /\ cards = renderApp(st)
            /\ nextTaskId = 1
            /\ ev = Event("load", NULL, NULL, <<>>, 0)
            /\ reopened = {}
            /\ deletedPending = {}

\* The page is not loaded yet: localStorage holds some entry.
InitLoad ==
    /\ storage \in LoadValues
    /\ setItemThrows = FALSE
    /\ tasks = <<>>
    /\ templates = <<>>
    /\ composerTemplate = NULL
    /\ composerDueDate = NULL
    /\ activeFilter = FILTER_MODE_ALL
    /\ activeView = VIEW_MODE_TASKS
    /\ pendingCompletionTimers = EmptyMap
    /\ timers = {}
    /\ nextTimerId = 1
    /\ cards = <<>>
    /\ now = 0
    /\ nextTaskId = 1
    /\ ev = Event("start", NULL, NULL, <<>>, 0)
    /\ reopened = {}
    /\ deletedPending = {}

\* What the due-date input is tried with
DueDateTexts ==
    { <<>>,
      <<" ", " ">>,
      <<"2", "9", "/", "0", "2", "/", "2", "4">>,
      <<"2", "9", "/", "0", "2", "/", "2", "3">>,
      <<"4", "/", "3", "/", "7", "5">>,
      <<"1", "/", "1", "/", "7", "0">>,
      <<"1", "/", "1", "/", "6", "9">>,
      <<"3", "1", "/", "1", "2", "/", "0", "0">>,
      <<"3", "0", "/", "0", "2", "/", "2", "0", "2", "3">>,
      <<"a", "b", "c">>,
      <<"2", "0", "2", "4", "-", "0", "2", "-", "2", "9">>,
      <<"1", "/", "1", "/", "0", "0", "5", "0">>,
      <<"1", "/", "1", "/", "1", "2", "3">>,
      <<"1", "/", "1", "/", "1", "0", "0">>,
      <<"3", "1", "/", "1", "2", "/", "9", "9", "9", "9">>,
      <<"2", "9", "/", "2", "/", "2", "0", "0", "0">>,
      <<"2", "9", "/", "2", "/", "1", "9", "0", "0">>,
      <<" ", "0", "1", "/", "0", "1", "/", "2", "0", "2", "4", " ">>,
      <<"3", "2", "/", "0", "1", "/", "2", "0", "2", "4">>,
      <<"1", "/", "1", "3", "/", "2", "0", "2", "4">>,
      <<"0", "/", "1", "/", "2", "0", "2", "4">>,
      <<"1", "/", "0", "/", "2", "0", "2", "4">>,
      <<"1", "/", "1", "/", "1">>,
      <<"1", "/", "1", "/", "2", "0", "2", "4", "5">>,
      <<"1", "-", "1", "-", "2", "0", "2", "4">>,
      <<"0", "0", "1", "/", "1", "/", "2", "0", "2", "4">>,
      <<"3", "1", "/", "0", "4", "/", "2", "0", "2", "4">> }

\* A page loaded with no stored entry; the editor holds some content, or
\* the due-date input holds some text.
InitEditor ==
    LET st == loadState(Stored("missing", 0, <<>>, FALSE, <<>>, FALSE, NOTSTRING, ""), 0)
    IN  /\ tasks = st.tasks
        /\ templates = st.templates
        /\ composerTemplate = st.composerTemplate
        /\ composerDueDate = normalizeDueDate(st.composerDueDate)
        /\ activeFilter = st.activeFilter
        /\ activeView = st.activeView
        /\ storage = saveState(st)
        /\ setItemThrows = FALSE
        /\ pendingCompletionTimers = EmptyMap
        /\ timers = {}
        /\ nextTimerId = 1
        /\ now = 0
        /\ cards = renderApp(st)
        /\ nextTaskId = 1
        /\ \/ \E innerHTML \in EditorContents : ev = Event("input", NULL, NULL, innerHTML, 0)
           \/ \E text \in DueDateTexts : ev = Event("input-date", NULL, text, <<>>, 0)
        /\ reopened = {}
        /\ deletedPending = {}

\* A handler that changes the store and renders without saveState(state)
SaveAndRender_NoSave(st) ==
    /\ tasks' = st.tasks
    /\ templates' = st.templates
    /\ composerTemplate' = st.composerTemplate
    /\ composerDueDate' = st.composerDueDate
    /\ activeFilter' = st.activeFilter
    /\ activeView' = st.activeView
    /\ storage' = storage
    /\ UNCHANGED setItemThrows
    /\ cards' = renderApp(st)

SaveAndRender_Abort(st) ==
    IF setItemThrows
    THEN UNCHANGED <<tasks, templates, composerTemplate, composerDueDate, activeFilter,
                     activeView, storage, setItemThrows, cards>>
    ELSE /\ tasks' = st.tasks
         /\ templates' = st.templates
         /\ composerTemplate' = st.composerTemplate
         /\ composerDueDate' = st.composerDueDate
         /\ activeFilter' = st.activeFilter
         /\ activeView' = st.activeView
         /\ storage' = saveState(st)
         /\ UNCHANGED setItemThrows
         /\ cards' = renderApp(st)

\* A page loaded with the Template Set empty or <<Work>> and three stored
\* tasks (due dates: impossible, valid with spaces around, no string), before
\* a call of createTask with a content, a template and a due date of any kind.
InitCreateTask ==
    \E list \in { <<>>, <<Work>> } :
        LET stored == <<[RawTask(<<"a">>, <<"x">>, NULL, FALSE, NULL)
                            EXCEPT !.dueDate = <<"2", "0", "2", "3", "-", "0", "2", "-", "2", "9">>],
                        [RawTask(<<"b">>, <<"x">>, NULL, FALSE, NULL)
                            EXCEPT !.dueDate = <<" ", "2", "0", "2", "4", "-", "0", "2", "-", "2", "9", " ">>],
                        [RawTask(<<"c">>, <<"x">>, NULL, FALSE, NULL)
                            EXCEPT !.dueDate = NOTSTRING]>>
            st == loadState(Stored("object", STORAGE_VERSION, stored, TRUE, list, TRUE,
                                   FILTER_MODE_ALL, VIEW_MODE_TASKS), 0)
        IN  /\ tasks = st.tasks
            /\ templates = st.templates
            /\ composerTemplate = st.composerTemplate
            /\ composerDueDate = normalizeDueDate(st.composerDueDate)
            /\ activeFilter = st.activeFilter
            /\ activeView = st.activeView
            /\ storage = saveState(st)
            /\ setItemThrows = FALSE
            /\ pendingCompletionTimers = EmptyMap
            /\ timers = {}
            /\ nextTimerId = 1
            /\ now = 0
            /\ cards = renderApp(st)
            /\ nextTaskId = 1
            /\ \E template \in { NULL, NOTSTRING, <<>>, <<" ", " ">>, Work, WorkLower,
                                  <<"[", "W", "o", "r", "k", "]">>,
                                  <<" ", "H", "o", "m", "e", " ">>, LongName },
                  dueDate \in { NULL, NOTSTRING, <<"2", "0", "2", "4", "-", "0", "2", "-", "2", "9">>, <<"2", "0", "2", "3", "-", "0", "2", "-", "2", "9">>,
                                <<"2", "0", "2", "4", "-", "2", "-", "1">>, <<" ", "2", "0", "2", "4", "-", "0", "2", "-", "2", "9", " ">>, <<"2", "0", "2", "4", "-", "1", "3", "-", "0", "1">>,
                                <<"2", "0", "2", "4", "-", "0", "4", "-", "3", "1">>, <<"2", "9", "/", "0", "2", "/", "2", "0", "2", "4">> } :
                   ev = [op |-> "call", id |-> NULL, label |-> template, html |-> <<"x">>,
                         timer |-> 0, dueDate |-> dueDate]
            /\ reopened = {}
            /\ deletedPending = {}

\* A handler has changed the store to st: saveState(state); renderApp().
SaveAndRender(st) ==
    /\ tasks' = st.tasks
    /\ templates' = st.templates
    /\ composerTemplate' = st.composerTemplate
    /\ composerDueDate' = st.composerDueDate
    /\ activeFilter' = st.activeFilter
    /\ activeView' = st.activeView
    /\ storage' = (IF setItemThrows THEN storage ELSE saveState(st))
    /\ UNCHANGED setItemThrows
    /\ cards' = renderApp(st)

StoreUnchanged ==
    UNCHANGED <<tasks, templates, composerTemplate, composerDueDate, activeFilter,
                activeView, storage, setItemThrows>>

TimersUnchanged == UNCHANGED <<pendingCompletionTimers, timers, nextTimerId>>

HistoryUnchanged == UNCHANGED <<reopened, deletedPending>>

(***************************************************************************)
(* The actions: one per event handler or callback.                         *)
(***************************************************************************)
\* initApp on a page load or reload: the store is read from localStorage,
\* written back and rendered; the timers of the page before are gone.
\* The history records the kind of entry that was read.
initApp ==
    /\ ev' = Event("load", NULL, <<storage.kind>>, <<>>, 0)
    /\ LET st == loadState(storage, now)
       IN  SaveAndRender([st EXCEPT !.composerDueDate = normalizeDueDate(@)])
    /\ pendingCompletionTimers' = EmptyMap
    /\ timers' = {}
    /\ reopened' = {}
    /\ deletedPending' = {}
    /\ UNCHANGED <<nextTimerId, now, nextTaskId>>

\* Time passes while a timer waits: one animation interval.
Tick ==
    /\ now < MaxTicks * TASK_COMPLETE_ANIMATION_MS
    /\ \E t \in timers : now < t.due
    /\ now' = now + TASK_COMPLETE_ANIMATION_MS
    /\ ev' = Event("tick", NULL, NULL, <<>>, 0)
    /\ UNCHANGED <<tasks, templates, composerTemplate, composerDueDate, activeFilter,
                   activeView, storage, setItemThrows, pendingCompletionTimers, timers,
                   nextTimerId, cards, nextTaskId, reopened, deletedPending>>

\* handleAddTask, with innerHTML in the editor
handleAddTask(innerHTML) ==
    /\ ev' = Event("add-task", NULL, NULL, innerHTML, 0)
    /\ IF activeView # VIEW_MODE_TASKS \/ isEditorEmpty(innerHTML)
       THEN /\ StoreUnchanged
            /\ UNCHANGED <<cards, nextTaskId>>
       ELSE /\ nextTaskId <= MaxNewTasks
            /\ LET html == getEditorContent(innerHTML).html
                   task == createTask(html, composerTemplate, composerDueDate,
                                      createTaskId(nextTaskId), now)
               IN  SaveAndRender([CurrentState EXCEPT !.tasks = Append(@, task),
                                                      !.composerDueDate = NULL])
            /\ nextTaskId' = nextTaskId + 1
    /\ TimersUnchanged
    /\ HistoryUnchanged
    /\ UNCHANGED now

handleToggleComplete_Immediate(i) ==
    LET taskId == cards[i].taskId
        taskIndex == findIndex(tasks, taskId)
        completed == ~tasks[taskIndex].completed
    IN  /\ i \in 1..Len(cards)
        /\ taskIndex # 0
        /\ ev' = Event("toggle-complete", taskId, NULL, <<>>, 0)
        /\ SaveAndRender([CurrentState EXCEPT
               !.tasks[taskIndex] = [tasks[taskIndex] EXCEPT
                                        !.completed = completed,
                                        !.completedAt = IF completed THEN ToISOString(now)
                                                        ELSE NULL]])
        /\ reopened' = IF completed THEN reopened \ {taskId} ELSE reopened \cup {taskId}
        /\ TimersUnchanged
        /\ UNCHANGED <<deletedPending, now, nextTaskId>>

\* handleTaskActionClick on the toggle button of card i
handleToggleComplete(i) ==
    LET taskId == cards[i].taskId
        taskIndex == findIndex(tasks, taskId)
    IN  /\ i \in 1..Len(cards)
        /\ ev' = Event("toggle-complete", taskId, NULL, <<>>, 0)
        /\ IF taskIndex = 0
           THEN /\ StoreUnchanged
                /\ TimersUnchanged
                /\ HistoryUnchanged
                /\ UNCHANGED cards
           ELSE LET existingTask == tasks[taskIndex]
                IN  IF /\ ~existingTask.completed
                       /\ activeView = VIEW_MODE_TASKS
                       /\ ~cards[i].isCompleting
                    THEN /\ nextTimerId <= MaxTimers
                         /\ cards' = [cards EXCEPT ![i].isCompleting = TRUE]
                         /\ timers' = timers \cup
                                {[id |-> nextTimerId, taskId |-> taskId,
                                  due |-> now + TASK_COMPLETE_ANIMATION_MS]}
                         /\ nextTimerId' = nextTimerId + 1
                         /\ pendingCompletionTimers' =
                                MapSet(pendingCompletionTimers, taskId, nextTimerId)
                         /\ reopened' = reopened \ {taskId}
                         /\ StoreUnchanged
                         /\ UNCHANGED deletedPending
                    ELSE LET completed == ~existingTask.completed
                             newTask == [existingTask EXCEPT
                                            !.completed = completed,
                                            !.completedAt = IF completed
                                                            THEN ToISOString(now)
                                                            ELSE NULL]
                         IN  /\ SaveAndRender([CurrentState EXCEPT
                                                  !.tasks[taskIndex] = newTask])
                             /\ reopened' = IF completed
                                            THEN reopened \ {taskId}
                                            ELSE reopened \cup {taskId}
                             /\ TimersUnchanged
                             /\ UNCHANGED deletedPending
        /\ UNCHANGED <<now, nextTaskId>>

\* A delete-task that also removes the deleted task's template from the set
handleDeleteTask_DropTemplate(i) ==
    LET taskId == cards[i].taskId
        taskIndex == findIndex(tasks, taskId)
    IN  /\ i \in 1..Len(cards)
        /\ taskIndex # 0
        /\ ev' = Event("delete-task", taskId, NULL, <<>>, 0)
        /\ timers' = {t \in timers : t.taskId # taskId}
        /\ pendingCompletionTimers' = MapDelete(pendingCompletionTimers, taskId)
        /\ SaveAndRender([CurrentState EXCEPT
               !.tasks = SubSeq(tasks, 1, taskIndex - 1)
                             \o SubSeq(tasks, taskIndex + 1, Len(tasks)),
               !.templates = SelectSeq(templates,
                                 LAMBDA label : label # tasks[taskIndex].template)])
        /\ UNCHANGED <<deletedPending, reopened, nextTimerId, now, nextTaskId>>

\* handleTaskActionClick on the delete button of card i
handleDeleteTask(i) ==
    LET taskId == cards[i].taskId
        taskIndex == findIndex(tasks, taskId)
    IN  /\ i \in 1..Len(cards)
        /\ ev' = Event("delete-task", taskId, NULL, <<>>, 0)
        /\ IF taskIndex = 0
           THEN /\ StoreUnchanged
                /\ TimersUnchanged
                /\ HistoryUnchanged
                /\ UNCHANGED cards
           ELSE /\ IF taskId \in DOMAIN pendingCompletionTimers
                   THEN /\ timers' = {t \in timers :
                                         t.id # pendingCompletionTimers[taskId]}
                        /\ pendingCompletionTimers' =
                               MapDelete(pendingCompletionTimers, taskId)
                   ELSE UNCHANGED <<timers, pendingCompletionTimers>>
                /\ SaveAndRender([CurrentState EXCEPT
                       !.tasks = SubSeq(tasks, 1, taskIndex - 1)
                                     \o SubSeq(tasks, taskIndex + 1, Len(tasks))])
                /\ deletedPending' = deletedPending \cup
                       {t.id : t \in {u \in timers : u.taskId = taskId}}
                /\ reopened' = reopened \ {taskId}
                /\ UNCHANGED nextTimerId
        /\ UNCHANGED <<now, nextTaskId>>

\* handleTaskActionClick without the return for an id that is not found:
\* state.tasks.splice(-1, 1) removes the last task.
handleTaskActionClick_NoReturn(action, taskId) ==
    /\ findIndex(tasks, taskId) = 0
    /\ ev' = Event("not-found", taskId, <<action>>, <<>>, 0)
    /\ SaveAndRender([CurrentState EXCEPT !.tasks = SubSeq(tasks, 1, Len(tasks) - 1)])
    /\ TimersUnchanged
    /\ HistoryUnchanged
    /\ UNCHANGED <<now, nextTaskId>>

\* handleTaskActionClick on a button of the card whose data-task-id is taskId:
\* a card of the list, or a card that is not in the list when no task has
\* the id.
handleTaskActionClick(action, taskId) ==
    IF findIndex(tasks, taskId) = 0
    THEN /\ ev' = Event("not-found", taskId, <<action>>, <<>>, 0)
         /\ StoreUnchanged
         /\ TimersUnchanged
         /\ HistoryUnchanged
         /\ UNCHANGED <<cards, now, nextTaskId>>
    ELSE \E i \in 1..Len(cards) :
            /\ cards[i].taskId = taskId
            /\ IF action = "toggle-complete" THEN handleToggleComplete(i)
               ELSE handleDeleteTask(i)

\* Timers set with the same delay fire in the order they were set.
NextTimer == CHOOSE t \in timers : \A u \in timers : t.id <= u.id

\* The callback given to window.setTimeout by handleTaskActionClick
completionTimerCallback ==
    /\ timers # {}
    /\ now >= NextTimer.due
    /\ LET timer == NextTimer
           taskId == timer.taskId
           pendingTaskIndex == findIndex(tasks, taskId)
       IN  /\ timers' = timers \ {timer}
           /\ ev' = Event("timer", taskId, NULL, <<>>, timer.id)
           /\ pendingCompletionTimers' = MapDelete(pendingCompletionTimers, taskId)
           /\ IF pendingTaskIndex = 0
              THEN /\ StoreUnchanged
                   /\ UNCHANGED cards
              ELSE SaveAndRender([CurrentState EXCEPT
                       !.tasks[pendingTaskIndex] =
                           [tasks[pendingTaskIndex] EXCEPT
                               !.completed = TRUE,
                               !.completedAt = ToISOString(now)]])
    /\ HistoryUnchanged
    /\ UNCHANGED <<nextTimerId, now, nextTaskId>>

\* The data-filter-value of the options renderFilterDropdown leaves in the menu
FilterMenuValues ==
    {FILTER_VALUE_ALL, FILTER_VALUE_NONE}
        \cup {FILTER_VALUE_TEMPLATE_PREFIX \o templates[k] : k \in 1..Len(templates)}

handleFilterMenuAction(filterValue) ==
    /\ ev' = Event("select-filter", NULL, filterValue, <<>>, 0)
    /\ SaveAndRender([CurrentState EXCEPT
           !.activeFilter = fromFilterValue(filterValue, templates)])
    /\ TimersUnchanged
    /\ HistoryUnchanged
    /\ UNCHANGED <<now, nextTaskId>>

handleCompletedTabToggle ==
    /\ ev' = Event("toggle-view", NULL, NULL, <<>>, 0)
    /\ SaveAndRender([CurrentState EXCEPT
           !.activeView = IF activeView = VIEW_MODE_COMPLETED
                          THEN VIEW_MODE_TASKS
                          ELSE VIEW_MODE_COMPLETED])
    /\ TimersUnchanged
    /\ HistoryUnchanged
    /\ UNCHANGED <<now, nextTaskId>>

\* The data-template-value of the rows renderTemplateDropdown leaves in the menu
TemplateMenuValues == {templates[k] : k \in 1..Len(templates)}

\* handleTemplateMenuAction, action select-template; the clear option has no value
handleSelectTemplate(value) ==
    /\ ev' = Event("select-template", NULL, value, <<>>, 0)
    /\ SaveAndRender([CurrentState EXCEPT
           !.composerTemplate = IF Truthy(value)
                                THEN findTemplateValue(templates, value)
                                ELSE NULL])
    /\ TimersUnchanged
    /\ HistoryUnchanged
    /\ UNCHANGED <<now, nextTaskId>>

\* handleTemplateMenuAction, action delete-template
handleDeleteTemplate(value) ==
    /\ ev' = Event("delete-template", NULL, value, <<>>, 0)
    /\ SaveAndRender(deleteTemplateFromState(CurrentState, value))
    /\ TimersUnchanged
    /\ HistoryUnchanged
    /\ UNCHANGED <<now, nextTaskId>>

handleTemplateAddSubmit(input) ==
    /\ ev' = Event("add-template", NULL, input, <<>>, 0)
    /\ LET templateName == sanitizeTemplateName(input)
       IN  IF Len(templateName) = 0
           THEN /\ StoreUnchanged
                /\ UNCHANGED cards
           ELSE LET pushed == pushUniqueTemplate(templates, templateName)
                IN  SaveAndRender([CurrentState EXCEPT
                        !.templates = pushed.list,
                        !.composerTemplate = pushed.value])
    /\ TimersUnchanged
    /\ HistoryUnchanged
    /\ UNCHANGED <<now, nextTaskId>>

\* commitDueDateInputValue, from the blur and Enter handlers of the input
commitDueDateInputValue(rawValue) ==
    /\ ev' = Event("commit-due-date", NULL, NULL, <<>>, 0)
    /\ LET parsedValue == parseDueDateInput(rawValue)
       IN  IF parsedValue.status = "invalid"
           THEN UNCHANGED composerDueDate
           ELSE composerDueDate' = parsedValue.value
    /\ UNCHANGED <<tasks, templates, composerTemplate, activeFilter, activeView, storage,
                   setItemThrows,
                   cards>>
    /\ TimersUnchanged
    /\ HistoryUnchanged
    /\ UNCHANGED <<now, nextTaskId>>

\* handleDueDateInputBlur when the user has not edited the input: its value
\* is what commitDueDateInputValue or renderDueDateControl wrote last, the
\* composer's due date formatted, or the empty string.
handleDueDateInputBlur ==
    /\ LET value == IF Truthy(composerDueDate) THEN formatDueDateInput(composerDueDate)
                    ELSE <<>>
           parsedValue == parseDueDateInput(value)
       IN  /\ ev' = Event("blur-due-date", NULL, value, <<>>, 0)
           /\ IF parsedValue.status = "invalid"
              THEN UNCHANGED composerDueDate
              ELSE composerDueDate' = parsedValue.value
    /\ UNCHANGED <<tasks, templates, composerTemplate, activeFilter, activeView, storage,
                   setItemThrows,
                   cards>>
    /\ TimersUnchanged
    /\ HistoryUnchanged
    /\ UNCHANGED <<now, nextTaskId>>

\* handleDueDateMenuAction, actions due-date-today (value = today) and
\* due-date-select (value = a day button of the grid)
handleDueDateMenuAction(action, value) ==
    /\ ev' = Event(action, NULL, NULL, <<>>, 0)
    /\ IF action = "due-date-today"
       THEN composerDueDate' = toIsoDateFromLocalDate(LocalDate(now))
       ELSE LET selectedDueDate == normalizeDueDate(value)
            IN  IF ~Truthy(selectedDueDate)
                THEN UNCHANGED composerDueDate
                ELSE composerDueDate' = selectedDueDate
    /\ UNCHANGED <<tasks, templates, composerTemplate, activeFilter, activeView, storage,
                   setItemThrows,
                   cards>>
    /\ TimersUnchanged
    /\ HistoryUnchanged
    /\ UNCHANGED <<now, nextTaskId>>

\* createTask(contentHtml, template, dueDate) is called with the arguments
\* drawn, and the task returned is pushed onto state.tasks.
createTaskCall ==
    /\ ev.op = "call"
    /\ ev' = [ev EXCEPT !.op = "createTask"]
    /\ tasks' = Append(tasks, createTask(ev.html, ev.label, ev.dueDate,
                                         createTaskId(nextTaskId), now))
    /\ nextTaskId' = nextTaskId + 1
    /\ UNCHANGED <<templates, composerTemplate, composerDueDate, activeFilter, activeView,
                   storage, setItemThrows, cards, now>>
    /\ TimersUnchanged
    /\ HistoryUnchanged

\* The environment: localStorage starts or stops refusing writes.
StorageQuotaChanges ==
    /\ setItemThrows' = ~setItemThrows
    /\ ev' = Event("storage-quota", NULL, NULL, <<>>, 0)
    /\ UNCHANGED <<tasks, templates, composerTemplate, composerDueDate, activeFilter,
                   activeView, storage, cards, now, nextTaskId>>
    /\ TimersUnchanged
    /\ HistoryUnchanged

\* The user works the task list while writes to localStorage may fail.
NextStorage ==
    \/ StorageQuotaChanges
    \/ Tick
    \/ \E i \in 1..Len(cards) : handleToggleComplete(i)
    \/ completionTimerCallback
    \/ handleCompletedTabToggle

\* The page is loaded from an entry of any kind, and then the filter menu,
\* the template menu and the tab toggle are worked.
NextSession ==
    \/ initApp
    \/ /\ ev.op # "start"
       /\ \/ \E filterValue \in FilterMenuValues : handleFilterMenuAction(filterValue)
          \/ \E value \in TemplateMenuValues \cup {<<>>} : handleSelectTemplate(value)
          \/ \E value \in TemplateMenuValues : handleDeleteTemplate(value)
          \/ handleCompletedTabToggle

\* Time passes as long as a scheduled timer waits for it.
TimerDelayPasses ==
    /\ \E t \in timers : now < t.due
    /\ now' = now + TASK_COMPLETE_ANIMATION_MS
    /\ ev' = Event("tick", NULL, NULL, <<>>, 0)
    /\ UNCHANGED <<tasks, templates, composerTemplate, composerDueDate, activeFilter,
                   activeView, storage, setItemThrows, cards, nextTaskId>>
    /\ TimersUnchanged
    /\ HistoryUnchanged

\* The task list is worked, and the browser runs every timer it was given.
NextTimers ==
    \/ TimerDelayPasses
    \/ completionTimerCallback
    \/ \E i \in 1..Len(cards) : handleToggleComplete(i)
    \/ \E i \in 1..Len(cards) : handleDeleteTask(i)
    \/ handleCompletedTabToggle

\* The user works the task list: the cards and the tab toggle.
NextCompletion ==
    \/ Tick
    \/ \E i \in 1..Len(cards) : handleToggleComplete(i)
    \/ \E i \in 1..Len(cards) : handleDeleteTask(i)
    \/ completionTimerCallback
    \/ handleCompletedTabToggle
    \/ \E action \in {"toggle-complete", "delete-task"} :
           handleTaskActionClick(action, <<"z">>)

\* The template menu, the filter menu and the composer are worked, and
\* deleteTemplate is also called with labels of no menu row.
NextTemplates ==
    \/ \E innerHTML \in EditorInputs : handleAddTask(innerHTML)
    \/ \E i \in 1..Len(cards) : handleDeleteTask(i)
    \/ \E filterValue \in FilterMenuValues : handleFilterMenuAction(filterValue)
    \/ \E value \in TemplateMenuValues \cup {<<>>} : handleSelectTemplate(value)
    \/ \E value \in TemplateMenuValues : handleDeleteTemplate(value)
    \/ \E label \in LabelInputs : handleDeleteTemplate(label)
    \/ \E input \in TemplateAddInputs : handleTemplateAddSubmit(input)

\* The user works the composer: the editor, the template menu, the due
\* date control, and the tab toggle that shows and hides it.
NextComposer ==
    \/ \E innerHTML \in EditorInputs : handleAddTask(innerHTML)
    \/ handleCompletedTabToggle
    \/ \E value \in TemplateMenuValues \cup {<<>>} : handleSelectTemplate(value)
    \/ \E input \in TemplateAddInputs : handleTemplateAddSubmit(input)
    \/ \E rawValue \in DueDateInputs : commitDueDateInputValue(rawValue)
    \/ handleDueDateMenuAction("due-date-today", NULL)
    \/ \E value \in CalendarDates : handleDueDateMenuAction("due-date-select", value)

\* The user works the filter: names a template, picks it for the next
\* task, adds tasks, and chooses rows of the filter menu in either tab.
NextFilter ==
    \/ \E input \in FilterWordInputs : handleTemplateAddSubmit(input)
    \/ \E value \in TemplateMenuValues \cup {<<>>} : handleSelectTemplate(value)
    \/ \E innerHTML \in EditorInputs : handleAddTask(innerHTML)
    \/ \E filterValue \in FilterMenuValues : handleFilterMenuAction(filterValue)
    \/ handleCompletedTabToggle

\* The page is loaded and reloaded.
NextLoad == initApp

\* The add button with the content that the editor holds; Enter in the
\* due-date input with the text that it holds, then the input loses the focus
NextEditor ==
    \/ ev.op = "input" /\ handleAddTask(ev.html)
    \/ ev.op = "input-date" /\ commitDueDateInputValue(ev.label)
    \/ ev.op = "commit-due-date" /\ handleDueDateInputBlur

Next ==
    \/ NextLoad
    \/ NextTimers
    \/ NextSession
    \/ NextStorage
    \/ createTaskCall
    \/ NextEditor
    \/ NextFilter
    \/ NextCompletion
    \/ NextTemplates
    \/ NextComposer

Spec == Init /\ [][Next]_vars

SpecCompletion == Init /\ [][NextCompletion]_vars

SpecTemplates == Init /\ [][NextTemplates]_vars

SpecComposer == Init /\ [][NextComposer]_vars

SpecFilter == Init /\ [][NextFilter]_vars

SpecLoad == InitLoad /\ [][NextLoad]_vars

SpecEditor == InitEditor /\ [][NextEditor]_vars

SpecCreateTask == InitCreateTask /\ [][createTaskCall]_vars

SpecStorage == Init /\ [][NextStorage]_vars

SpecSession == InitLoad /\ [][NextSession]_vars

\* The browser lets time pass and calls a timer's callback once it is due.
SpecTimers ==
    /\ Init
    /\ [][NextTimers]_vars
    /\ WF_vars(TimerDelayPasses)
    /\ WF_vars(completionTimerCallback)

(***************************************************************************)
(* Properties.                                                             *)
(***************************************************************************)
\* The scheduled timers of a task id
TimersFor(taskId) == {t \in timers : t.taskId = taskId}

\* C1: in every reachable state, every task has completedAt non-null if and
\* only if completed is true.
C1_CompletedAtIffCompleted ==
    \A i \in 1..Len(tasks) : (tasks[i].completedAt # NULL) <=> tasks[i].completed

\* C2: at any time at most one deferred-completion timer is scheduled per
\* task id, and the registry holds exactly that timer: every scheduled timer
\* is its task's registry entry and every registry entry is a scheduled timer.
C2_OneTimerPerTask ==
    /\ \A t, u \in timers : t.taskId = u.taskId => t = u
    /\ \A t \in timers :
           /\ t.taskId \in DOMAIN pendingCompletionTimers
           /\ pendingCompletionTimers[t.taskId] = t.id
    /\ \A taskId \in DOMAIN pendingCompletionTimers :
           \E t \in timers : t.taskId = taskId /\ t.id = pendingCompletionTimers[taskId]

\* C3: a toggle-complete click on a task whose deferred commit is pending
\* cancels it: after the click no timer for that task is scheduled, so none
\* fires later.
C3_SecondClickCancels ==
    [][(ev'.op = "toggle-complete" /\ TimersFor(ev'.id) # {})
          => \A t \in timers' : t.taskId # ev'.id]_vars

\* C4: a task the user has toggled incomplete has completed = false and
\* completedAt = null, no deferred-commit timer is pending for it, and it
\* stays so until the next user toggle on it.
C4_ReopenedStaysActive ==
    \A i \in 1..Len(tasks) :
        tasks[i].id \in reopened =>
            /\ ~tasks[i].completed
            /\ tasks[i].completedAt = NULL
            /\ TimersFor(tasks[i].id) = {}

\* C5: when a task is deleted its id leaves the registry and no timer that
\* was scheduled for it stays scheduled; and the firing of such a timer
\* leaves every task as it was.
C5_DeleteCancelsTimers ==
    [][/\ ev'.op = "delete-task" => ev'.id \notin DOMAIN pendingCompletionTimers'
       /\ \A t \in timers' : t.id \notin deletedPending'
       /\ (ev'.op = "timer" /\ ev'.timer \in deletedPending) => tasks' = tasks]_vars

\* C6: in every reachable state each task's template is null or exactly a
\* label of the Template Set.
C6_TemplateInSet ==
    \A i \in 1..Len(tasks) :
        \/ tasks[i].template = NULL
        \/ \E k \in 1..Len(templates) : templates[k] = tasks[i].template

\* The label with every letter in lower case
LowerCase(label) == [i \in 1..Len(label) |-> ToLowerChar(label[i])]

\* C7: the Template Set never holds two labels equal ignoring case; and once
\* a name has been added, the one label equal to it ignoring case is in the
\* set and is the label returned (the composer's template).
C7_CaseInsensitiveUnique ==
    /\ \A j, k \in 1..Len(templates) :
           LowerCase(templates[j]) = LowerCase(templates[k]) => j = k
    /\ (ev.op = "add-template" /\ Len(sanitizeTemplateName(ev.label)) > 0) =>
           \E k \in 1..Len(templates) :
               /\ LowerCase(templates[k]) = LowerCase(sanitizeTemplateName(ev.label))
               /\ composerTemplate = templates[k]

\* Whether the label is an entry of the list
InSet(list, label) == \E k \in 1..Len(list) : list[k] = label

\* C8: deleteTemplate(label) for a label of the Template Set removes the
\* label and keeps the other labels in order, sets template = null on the
\* tasks that carried it and leaves every other task as it was, and resets
\* the composer's template to null and activeFilter to "all" where they
\* were the label, leaving them alone otherwise.
C8_DeleteTemplateCascades ==
    [][(ev'.op = "delete-template" /\ InSet(templates, ev'.label)) =>
          /\ ~InSet(templates', ev'.label)
          /\ templates' = SelectSeq(templates, LAMBDA e : e # ev'.label)
          /\ Len(tasks') = Len(tasks)
          /\ \A i \in 1..Len(tasks) :
                 tasks'[i] = IF tasks[i].template = ev'.label
                             THEN [tasks[i] EXCEPT !.template = NULL]
                             ELSE tasks[i]
          /\ composerTemplate' = IF composerTemplate = ev'.label
                                 THEN NULL
                                 ELSE composerTemplate
          /\ activeFilter' = IF activeFilter = ev'.label
                             THEN FILTER_MODE_ALL
                             ELSE activeFilter]_vars

\* No entry of the list equals the label ignoring case, as given or cleaned
NoEntryMatches(list, label) ==
    \A k \in 1..Len(list) :
        /\ LowerCase(list[k]) # LowerCase(label)
        /\ LowerCase(list[k]) # LowerCase(sanitizeTemplateName(label))

\* C9: deleteTemplate(label) with a label that matches no entry of the
\* Template Set changes nothing: tasks, templates, composer draft,
\* activeFilter and activeView are as before.
C9_DeleteUnknownTemplateNoOp ==
    [][(ev'.op = "delete-template" /\ NoEntryMatches(templates, ev'.label)) =>
          UNCHANGED <<tasks, templates, composerTemplate, composerDueDate,
                      activeFilter, activeView>>]_vars

\* C9 happens: deleteTemplate has run with a label matching none of the
\* labels, beside tasks that carry a template.
C9_Witness ==
    /\ ev.op = "delete-template"
    /\ Len(templates) > 0
    /\ NoEntryMatches(templates, ev.label)
    /\ \E i \in 1..Len(tasks) : InSet(templates, tasks[i].template)

\* Editor content that is only markup, whitespace and non-breaking spaces
OnlyMarkup(innerHTML) ==
    \A i \in 1..Len(innerHTML) :
        \/ innerHTML[i] \in {" ", "&nbsp;"}
        \/ innerHTML[i] \in {"<p>", "</p>", "<br>", "<div>", "</div>", "<b>", "</b>"}

\* C10: an add-task request whose editor content has empty plain text
\* creates no task and leaves tasks, templates, the composer draft and the
\* persisted snapshot unchanged.
C10_EmptyAddTaskRejected ==
    [][(ev'.op = "add-task" /\ OnlyMarkup(ev'.html)) =>
          UNCHANGED <<tasks, templates, composerTemplate, composerDueDate,
                      storage>>]_vars

\* C10 happens: Enter was pressed in the Tasks view on an editor holding
\* only markup, with a template and a due date chosen in the composer.
C10_Witness ==
    /\ ev.op = "add-task"
    /\ Len(ev.html) > 0
    /\ OnlyMarkup(ev.html)
    /\ activeView = VIEW_MODE_TASKS
    /\ composerTemplate # NULL
    /\ composerDueDate # NULL

\* The tasks of the active tab, in store order
TabTasks ==
    SelectSeq(tasks, LAMBDA task : task.completed = (activeView = VIEW_MODE_COMPLETED))

\* The tasks a row of the filter menu stands for: every task for the row
\* All, the tasks without a template label for the row No template, and for
\* the row of a label the tasks that carry exactly that label.
RowTasks(filterValue) ==
    IF filterValue = FILTER_VALUE_ALL THEN TabTasks
    ELSE IF filterValue = FILTER_VALUE_NONE
    THEN SelectSeq(TabTasks, LAMBDA task : task.template \in {NULL, <<>>})
    ELSE SelectSeq(TabTasks,
             LAMBDA task : FILTER_VALUE_TEMPLATE_PREFIX \o task.template = filterValue)

\* C11: once a row of the filter menu has been chosen, visibleTasks is
\* exactly the tasks of the active tab that the row stands for, also when
\* the row's label is the word all or none.
C11_VisibleTasksMatchFilter ==
    ev.op = "select-filter" => getVisibleTasks(CurrentState) = RowTasks(ev.label)

\* The store is the empty valid state
EmptyStore ==
    /\ tasks = <<>>
    /\ templates = <<>>
    /\ activeFilter = FILTER_MODE_ALL
    /\ activeView = VIEW_MODE_TASKS

\* The kinds of localStorage entry that hold no JSON object
NoObjectKinds == { <<"missing">>, <<"throws">>, <<"corrupt">>, <<"json-null">>, <<"scalar">> }

\* C12: a load that finds no entry, no JSON, JSON that is no object, or a
\* storage read that throws, returns the empty valid state.
C12_LoadFallsBackToEmpty ==
    (ev.op = "load" /\ ev.label \in NoObjectKinds) => EmptyStore

\* C12 happens: the page has loaded from an entry that holds no JSON.
C12_Witness ==
    /\ ev.op = "load"
    /\ ev.label = <<"corrupt">>
    /\ EmptyStore

\* A string with a character that is no white space
NonBlank(v) == IsString(v) /\ \E i \in 1..Len(v) : v[i] \notin {" ", NBSP}

\* A stored task record that is an object with an id and with content
WellFormed(record) ==
    record.isObject /\ NonBlank(record.id) /\ NonBlank(record.contentHtml)

\* C13: a load from a snapshot with a tasks array returns one task for each
\* well-formed record, with its id and content and in the stored order, and
\* none for a record that is no object or has no id or no content.
C13_LoadDropsMalformedRecords ==
    [][(ev'.op = "load" /\ storage.kind = "object" /\ storage.tasksIsArray) =>
          LET kept == SelectSeq(storage.tasks, WellFormed)
          IN  /\ Len(tasks') = Len(kept)
              /\ \A i \in 1..Len(kept) :
                     /\ tasks'[i].id = kept[i].id
                     /\ tasks'[i].contentHtml = kept[i].contentHtml]_vars

\* C13 happens: the page has loaded and kept some of the stored records,
\* two of them after records that were dropped.
C13_Witness ==
    /\ ev.op = "load"
    /\ Len(tasks) = 2
    /\ tasks[1].id = <<"b">>
    /\ tasks[2].id = <<"a">>

\* A label equal to the legacy sentinel label, ignoring case
IsLegacyLabel(v) == IsString(v) /\ LowerCase(v) = LowerCase(LEGACY_AUTO_TEMPLATE)

\* C14: a load from a snapshot of another version leaves no label equal to
\* GENERAL ignoring case in the Template Set nor on a task; a load from a
\* snapshot of the current version keeps such a label in the set if the stored
\* set or a stored task had it, and on every task that carried it.
C14_LegacyLabelStrippedOnMigration ==
    [][(ev'.op = "load" /\ storage.kind = "object") =>
          IF storage.version # STORAGE_VERSION
          THEN /\ \A i \in 1..Len(templates') : ~IsLegacyLabel(templates'[i])
               /\ \A i \in 1..Len(tasks') : ~IsLegacyLabel(tasks'[i].template)
          ELSE LET kept == SelectSeq(storage.tasks, WellFormed)
               IN  /\ (\E i \in 1..Len(storage.templates) :
                           IsLegacyLabel(storage.templates[i]))
                          => \E i \in 1..Len(templates') : IsLegacyLabel(templates'[i])
                   /\ (\E i \in 1..Len(kept) : IsLegacyLabel(kept[i].template))
                          => \E i \in 1..Len(templates') : IsLegacyLabel(templates'[i])
                   /\ \A i \in 1..Len(kept) :
                          IsLegacyLabel(kept[i].template)
                              => IsLegacyLabel(tasks'[i].template)]_vars

\* C14 happens: a snapshot of a former version that had the label General on
\* the task a has been loaded; the task lost it and the task b kept its label.
C14_Witness ==
    /\ ev.op = "load"
    /\ storage.version = STORAGE_VERSION
    /\ templates = <<Work, Home>>
    /\ Len(tasks) = 2
    /\ tasks[1].id = <<"a">> /\ tasks[1].template = NULL
    /\ tasks[2].template = Home

\* C14 happens under the current version: the label is kept on the task a.
C14_WitnessCurrent ==
    /\ ev.op = "load"
    /\ Len(tasks) = 2
    /\ IsLegacyLabel(tasks[1].template)
    /\ \E i \in 1..Len(templates) : IsLegacyLabel(templates[i])

\* The node tree that sanitizeEditorHTML serializes
SafeRoot(html) ==
    SanitizeChildren(ParseHTML(<<"<div>">> \o html \o <<"</div>">>)[1].kids)

\* Every element of the tree is b, i, u, br or p without attributes, and a br
\* has no children
RECURSIVE OnlySafeElements(_)
OnlySafeElements(nodes) ==
    \A i \in 1..Len(nodes) :
        \/ nodes[i].tag = "#text"
        \/ /\ nodes[i].tag \in {"B", "I", "U", "BR", "P"}
           /\ ~nodes[i].attrs
           /\ nodes[i].tag = "BR" => nodes[i].kids = <<>>
           /\ OnlySafeElements(nodes[i].kids)

SafeTagTokens == { "<b>", "</b>", "<i>", "</i>", "<u>", "</u>", "<br>", "<p>", "</p>" }

\* C15: whatever the editor holds, the tree the sanitizer returns has only
\* elements b, i, u, br and p, none with an attribute and no br with children,
\* and the markup it returns (the content of the task created from it) has no
\* other tag.
C15_SanitizerOutputAllowedOnly ==
    ev.op = "add-task" =>
        /\ OnlySafeElements(SafeRoot(ev.html))
        /\ LET out == sanitizeEditorHTML(ev.html)
           IN  \A i \in 1..Len(out) : IsTagToken(out[i]) => out[i] \in SafeTagTokens
        /\ \A k \in 1..Len(tasks) :
               \A i \in 1..Len(tasks[k].contentHtml) :
                   IsTagToken(tasks[k].contentHtml[i])
                       => tasks[k].contentHtml[i] \in SafeTagTokens

\* C15 happens: a task was created from an editor that held a span around a
\* b with an attribute, a text and a div; the content has b and p only.
C15_Witness ==
    /\ ev.op = "add-task"
    /\ ev.html = <<"<span>", "<b onclick>", "x", "<div>", "</span>">>
    /\ Len(tasks) = 1
    /\ tasks[1].contentHtml = <<"<b>", "x", "<p>", "</p>", "</b>">>

\* The markup h is complete: inside an element it is parsed to the same nodes
\* as on its own
Nested(h) ==
    ParseHTML(<<"<span>">> \o h \o <<"</span>">>) = <<Element("SPAN", FALSE, ParseHTML(h))>>

\* C16: the sanitizer replaces a disallowed element (script, span) by the
\* sanitized forms of its children: for complete markup h inside the element,
\* the result is the result for h alone; for a b around x inside a script it
\* is the b around x.
C16_UnwrapIsRecursive ==
    ev.op = "add-task" =>
        \A w \in { <<"<script>", "</script>">>, <<"<span>", "</span>">> } :
            (/\ Len(ev.html) >= 2
             /\ ev.html[1] = w[1]
             /\ ev.html[Len(ev.html)] = w[2]
             /\ Nested(SubSeq(ev.html, 2, Len(ev.html) - 1)))
                => sanitizeEditorHTML(ev.html)
                       = sanitizeEditorHTML(SubSeq(ev.html, 2, Len(ev.html) - 1))

\* C16 under a span: the elements and text inside a span survive.
C16_UnwrapSpan ==
    (/\ ev.op = "add-task"
     /\ Len(ev.html) >= 2
     /\ ev.html[1] = "<span>"
     /\ ev.html[Len(ev.html)] = "</span>"
     /\ Nested(SubSeq(ev.html, 2, Len(ev.html) - 1)))
        => sanitizeEditorHTML(ev.html)
               = sanitizeEditorHTML(SubSeq(ev.html, 2, Len(ev.html) - 1))

\* C17: the sanitizer is idempotent: the sanitizer applied to its result for
\* the editor's content returns that result.
C17_SanitizerIdempotent ==
    ev.op = "add-task" =>
        sanitizeEditorHTML(sanitizeEditorHTML(ev.html)) = sanitizeEditorHTML(ev.html)

\* C18: in every state between two handlers the persisted snapshot is an
\* object of the current version whose tasks, templates, activeFilter and
\* activeView are those of the store.
C18_SnapshotEqualsStore ==
    /\ storage.kind = "object"
    /\ storage.version = STORAGE_VERSION
    /\ storage.tasksIsArray /\ storage.templatesIsArray
    /\ Len(storage.tasks) = Len(tasks)
    /\ \A i \in 1..Len(tasks) :
           /\ storage.tasks[i].id = tasks[i].id
           /\ storage.tasks[i].contentHtml = tasks[i].contentHtml
           /\ storage.tasks[i].template = tasks[i].template
           /\ storage.tasks[i].dueDate = tasks[i].dueDate
           /\ storage.tasks[i].createdAt = tasks[i].createdAt
           /\ storage.tasks[i].completed = tasks[i].completed
           /\ storage.tasks[i].completedAt = tasks[i].completedAt
    /\ storage.templates = templates
    /\ storage.activeFilter = activeFilter
    /\ storage.activeView = activeView

\* C18 happens: the timer callback has completed a task and the snapshot has
\* the task as completed.
C18_Witness ==
    /\ ev.op = "timer"
    /\ \E i \in 1..Len(tasks) :
           /\ tasks[i].id = ev.id
           /\ tasks[i].completed
           /\ storage.tasks[i].completed
           /\ storage.tasks[i].completedAt = tasks[i].completedAt

\* The ids of the cards in the list, the ids of a sequence of tasks
CardIds == [i \in 1..Len(cards) |-> cards[i].taskId]

TaskIds(ts) == [i \in 1..Len(ts) |-> ts[i].id]

\* C19: in every state between two handlers the ids of the rendered cards are
\* the ids of the visible tasks of the store (the tasks of the active tab that
\* pass the active filter), in the same order.
C19_RenderedIdsAreVisibleIds ==
    CardIds = TaskIds(getVisibleTasks(CurrentState))

\* C19 happens: the completed tab has been opened on a store with active and
\* completed tasks and shows some of the tasks only.
C19_Witness ==
    /\ ev.op = "toggle-view"
    /\ activeView = VIEW_MODE_COMPLETED
    /\ Len(cards) > 0
    /\ Len(cards) < Len(tasks)
    /\ CardIds = TaskIds(SelectSeq(tasks, LAMBDA task : task.completed))

\* C20: a step of the add button that creates a task leaves the composer with
\* no pending template and no pending due date.
C20_ComposerResetAfterCreate ==
    [][(ev'.op = "add-task" /\ Len(tasks') = Len(tasks) + 1) =>
          /\ composerTemplate' = NULL
          /\ composerDueDate' = NULL]_vars

\* C20 for the due date alone: the pending due date is null after a creation.
C20_DueDateResetAfterCreate ==
    [][(ev'.op = "add-task" /\ Len(tasks') = Len(tasks) + 1) =>
          composerDueDate' = NULL]_vars

\* C21: createTask with a template string whose cleaned form is not empty
\* stores on the task the label of the Template Set that equals the cleaned
\* form ignoring case, if there is one; otherwise it stores the cleaned form
\* and the Template Set holds it afterwards.
C21_CreateTaskResolvesTemplate ==
    [][(ev'.op = "createTask" /\ IsString(ev.label)
            /\ sanitizeTemplateName(ev.label) # <<>>) =>
          LET cleaned == sanitizeTemplateName(ev.label)
              created == tasks'[Len(tasks')]
              same == { i \in 1..Len(templates) : LowerCase(templates[i]) = LowerCase(cleaned) }
          IN  IF same # {}
              THEN \E i \in same : created.template = templates[i]
              ELSE /\ created.template = cleaned
                   /\ \E i \in 1..Len(templates') : templates'[i] = cleaned]_vars

\* The days of month m (1..12) of year y in the Gregorian calendar
CalendarDays(y, m) ==
    IF m = 2
    THEN (IF y % 400 = 0 \/ (y % 4 = 0 /\ y % 100 # 0) THEN 29 ELSE 28)
    ELSE IF m \in {4, 6, 9, 11} THEN 30 ELSE 31

\* s is YYYY-MM-DD, zero-padded, and names a day of the calendar
ValidIsoDate(s) ==
    /\ IsString(s)
    /\ Len(s) = 10
    /\ s[5] = "-" /\ s[8] = "-"
    /\ \A i \in {1, 2, 3, 4, 6, 7, 9, 10} : IsDigit(s[i])
    /\ LET y == ToNumber(SubSeq(s, 1, 4))
           m == ToNumber(SubSeq(s, 6, 7))
           d == ToNumber(SubSeq(s, 9, 10))
       IN  m \in 1..12 /\ d \in 1..CalendarDays(y, m)

\* C22: every task of the store, loaded or created, has a due date that is
\* null or a valid YYYY-MM-DD date; createTask returns a task whatever the due
\* date is, with due date null when the due date given is no string or, once
\* trimmed, no valid YYYY-MM-DD date.
C22_DueDateNeverFailsCreation ==
    /\ [](\A i \in 1..Len(tasks) : tasks[i].dueDate = NULL \/ ValidIsoDate(tasks[i].dueDate))
    /\ [][ev'.op = "createTask" =>
              /\ Len(tasks') = Len(tasks) + 1
              /\ (~IsString(ev.dueDate) \/ ~ValidIsoDate(Trim(ev.dueDate)))
                     => tasks'[Len(tasks')].dueDate = NULL]_vars

\* C22 happens: createTask was called with the 29th of February of 2023 and
\* returned a task without due date, next to the three loaded tasks.
C22_Witness ==
    /\ ev.op = "createTask"
    /\ ev.dueDate = <<"2", "0", "2", "3", "-", "0", "2", "-", "2", "9">>
    /\ Len(tasks) = 4
    /\ tasks[4].dueDate = NULL
    /\ tasks[1].dueDate = NULL
    /\ tasks[2].dueDate = <<"2", "0", "2", "4", "-", "0", "2", "-", "2", "9">>

\* C23: a toggle-complete or delete-task request for an id that no task has
\* changes neither the tasks, the templates, the composer, the filter, the
\* view, the pending timers, the persisted snapshot nor the cards.
C23_UnknownIdChangesNothing ==
    [][(/\ ev'.op \in {"not-found", "toggle-complete", "delete-task"}
        /\ \A i \in 1..Len(tasks) : tasks[i].id # ev'.id) =>
          UNCHANGED <<tasks, templates, composerTemplate, composerDueDate, activeFilter,
                      activeView, pendingCompletionTimers, timers, storage, cards>>]_vars

\* C23 happens: a delete-task request for an unknown id was made while a task
\* was waiting for its completion timer, and task and timer are still there.
C23_Witness ==
    /\ ev.op = "not-found"
    /\ ev.label = <<"delete-task">>
    /\ \A i \in 1..Len(tasks) : tasks[i].id # ev.id
    /\ Len(tasks) > 0
    /\ timers # {}
    /\ DOMAIN pendingCompletionTimers # {}

\* C24: a delete-task step on the card of a task of the store removes the
\* one task at the position of the first task with that id: the tasks before
\* and after it keep all their fields and their order, and the Template Set,
\* the composer, the filter and the view are unchanged.
C24_DeleteRemovesOnlyThatTask ==
    [][(ev'.op = "delete-task" /\ \E i \in 1..Len(tasks) : tasks[i].id = ev'.id) =>
          /\ \E k \in 1..Len(tasks) :
                 /\ tasks[k].id = ev'.id
                 /\ Len(tasks') = Len(tasks) - 1
                 /\ \A i \in 1..(k - 1) : tasks'[i] = tasks[i]
                 /\ \A i \in (k + 1)..Len(tasks) : tasks'[i - 1] = tasks[i]
          /\ UNCHANGED <<templates, composerTemplate, composerDueDate, activeFilter,
                         activeView>>]_vars

\* C24 happens: the only task with the template Work was deleted, another
\* task is left, and Work is still in the Template Set.
C24_Witness ==
    /\ ev.op = "delete-task"
    /\ Len(tasks) = 1
    /\ tasks[1].id # ev.id
    /\ \E i \in 1..Len(templates) : templates[i] = Work
    /\ \A i \in 1..Len(tasks) : tasks[i].template # Work

\* C25: the due date of a loaded task, normalizeDueDate of the stored value,
\* is the stored value exactly when that is a string YYYY-MM-DD that names a
\* day of the calendar (parseIsoDate returns a date), and null for every other
\* stored value (parseIsoDate returns null).
C25_ParseIsoExactlyCalendarDates ==
    [][(ev'.op = "load" /\ storage.kind = "object" /\ storage.tasksIsArray) =>
          LET kept == SelectSeq(storage.tasks, WellFormed)
          IN  \A i \in 1..Len(kept) :
                  /\ i <= Len(tasks')
                  /\ tasks'[i].dueDate =
                         IF ValidIsoDate(kept[i].dueDate) THEN kept[i].dueDate ELSE NULL]_vars

\* C25 for the years from 100 on and ignoring white space around the date
C25_ParseIsoFromYear100 ==
    [][(ev'.op = "load" /\ storage.kind = "object" /\ storage.tasksIsArray) =>
          LET kept == SelectSeq(storage.tasks, WellFormed)
          IN  \A i \in 1..Len(kept) :
                  LET d == IF IsString(kept[i].dueDate) THEN Trim(kept[i].dueDate) ELSE NULL
                  IN  /\ i <= Len(tasks')
                      /\ tasks'[i].dueDate =
                             IF ValidIsoDate(d) /\ ToNumber(SubSeq(d, 1, 4)) >= 100
                             THEN d ELSE NULL]_vars

\* The text is D/M/Y: one or two digits, one or two digits, two to four digits
IsDayMonthYear(text) == MatchLocalDateInput(text) # <<>>

\* The year that the digits of a D/M/Y text stand for
YearOf(digits) ==
    IF Len(digits) = 2
    THEN (IF ToNumber(digits) >= 70 THEN 1900 + ToNumber(digits) ELSE 2000 + ToNumber(digits))
    ELSE ToNumber(digits)

\* What the claim gives for the text of the due-date input
DisplayResult(text) ==
    LET raw == Trim(text)
    IN  IF raw = <<>> THEN [status |-> "empty", value |-> NULL]
        ELSE IF ~IsDayMonthYear(raw) THEN [status |-> "invalid", value |-> NULL]
        ELSE LET parts == MatchLocalDateInput(raw)
                 d == ToNumber(parts[1])
                 m == ToNumber(parts[2])
                 y == YearOf(parts[3])
             IN  IF m \in 1..12 /\ d \in 1..CalendarDays(y, m)
                 THEN [status |-> "valid",
                       value |-> PadStart(NumberToString(y), 4) \o <<"-">>
                                     \o PadStart(NumberToString(m), 2) \o <<"-">>
                                     \o PadStart(NumberToString(d), 2)]
                 ELSE [status |-> "invalid", value |-> NULL]

\* C26: parseDueDateInput of the text of the due-date input is empty for a
\* blank text, invalid for a text that is not D/M/Y or names no day of the
\* calendar, and else valid with the zero-padded ISO date, a year of two
\* digits read as 19YY from 70 on and as 20YY below; and the composer's due
\* date is then the value, or unchanged when the text is invalid.
C26_ParseDisplayStatus ==
    [][(ev.op = "input-date" /\ ev'.op = "commit-due-date") =>
          /\ parseDueDateInput(ev.label) = DisplayResult(ev.label)
          /\ composerDueDate' = IF DisplayResult(ev.label).status = "invalid"
                                THEN composerDueDate
                                ELSE DisplayResult(ev.label).value]_vars

\* C26 for the texts whose year is 100 or later
C26_ParseDisplayFromYear100 ==
    [][(/\ ev.op = "input-date" /\ ev'.op = "commit-due-date"
        /\ IsDayMonthYear(Trim(ev.label))
               => YearOf(MatchLocalDateInput(Trim(ev.label))[3]) >= 100) =>
          /\ parseDueDateInput(ev.label) = DisplayResult(ev.label)
          /\ composerDueDate' = IF DisplayResult(ev.label).status = "invalid"
                                THEN composerDueDate
                                ELSE DisplayResult(ev.label).value]_vars

\* C27: the composer's due date d, a date that parseIsoDate accepts or null,
\* comes back from the input: parseDueDateInput(formatDueDateInput(d)) is
\* valid with value d, formatDueDateInput of null and of an invalid date is
\* the empty string, and a blur of the unedited input leaves d as it is.
C27_DateRoundTrip ==
    [][ev'.op = "blur-due-date" =>
          /\ composerDueDate' = composerDueDate
          /\ composerDueDate # NULL =>
                 /\ parseIsoDate(composerDueDate).ok
                 /\ ev'.label = formatDueDateInput(composerDueDate)
                 /\ parseDueDateInput(ev'.label) =
                        [status |-> "valid", value |-> composerDueDate]
          /\ formatDueDateInput(NULL) = <<>>
          /\ formatDueDateInput(<<"2", "0", "2", "3", "-", "0", "2", "-", "3", "0">>) = <<>>
          /\ formatDueDateInput(<<"a", "b", "c">>) = <<>>]_vars

\* C27 happens: 4/3/75 was typed, the due date 1975-03-04 was shown as
\* 04/03/1975, and the blur of the input has read that back.
C27_Witness ==
    /\ ev.op = "blur-due-date"
    /\ ev.label = <<"0", "4", "/", "0", "3", "/", "1", "9", "7", "5">>
    /\ composerDueDate = <<"1", "9", "7", "5", "-", "0", "3", "-", "0", "4">>

\* C27 happens with a year of three digits: 0123-01-01 is shown as 01/01/123.
C27_WitnessShortYear ==
    /\ ev.op = "blur-due-date"
    /\ ev.label = <<"0", "1", "/", "0", "1", "/", "1", "2", "3">>
    /\ composerDueDate = <<"0", "1", "2", "3", "-", "0", "1", "-", "0", "1">>

\* The day an ISO date names, as a number that orders the days
DayNumber(s) ==
    ToNumber(SubSeq(s, 1, 4)) * 10000 + ToNumber(SubSeq(s, 6, 7)) * 100
        + ToNumber(SubSeq(s, 9, 10))

\* Today's local calendar day as such a number
TodayNumber == LocalDate(now).year * 10000 + (LocalDate(now).month + 1) * 100
                   + LocalDate(now).date

\* C28: a task is overdue if and only if it is not completed, its due date is
\* a valid ISO date and that date is strictly before today's local calendar
\* date; a card is rendered overdue exactly for such a task.
C28_OverdueIffOpenAndPastDue ==
    /\ \A i \in 1..Len(tasks) :
          isTaskOverdue(tasks[i], now)
              <=> /\ ~tasks[i].completed
                  /\ ValidIsoDate(tasks[i].dueDate)
                  /\ DayNumber(tasks[i].dueDate) < TodayNumber
    /\ ev.op = "load" =>
          \A i \in 1..Len(cards) : \A j \in 1..Len(tasks) :
              tasks[j].id = cards[i].taskId =>
                  (cards[i].isOverdue
                      <=> /\ ~tasks[j].completed
                          /\ ValidIsoDate(tasks[j].dueDate)
                          /\ DayNumber(tasks[j].dueDate) < TodayNumber)

\* C28 witness: after a load, a card is overdue, and a task due today is not
C28_Witness ==
    /\ ev.op = "load"
    /\ Len(cards) = 1 /\ cards[1].isOverdue

C28_WitnessDueToday ==
    /\ ev.op = "load"
    /\ Len(cards) = 1 /\ ~cards[1].isOverdue
    /\ Len(tasks) = 1 /\ ValidIsoDate(tasks[1].dueDate)
    /\ DayNumber(tasks[1].dueDate) = TodayNumber
\* completedAt names an instant: the text that toISOString produces
IsInstant(c) == IsString(c) /\ Len(c) >= 2 /\ c[1] = "T" /\ AllDigits(Tail(c))

\* The local calendar day of the instant completedAt, as a number
CompletionDayNumber(c) ==
    LET date == LocalDate(ToNumber(Tail(c)))
    IN  date.year * 10000 + (date.month + 1) * 100 + date.date

\* What the completion status of a due date and a completion time should be
ExpectedCompletionStatus(dueDate, completedAt) ==
    IF ~ValidIsoDate(dueDate) \/ ~IsInstant(completedAt) THEN NULL
    ELSE IF CompletionDayNumber(completedAt) <= DayNumber(dueDate)
    THEN <<"on-time">> ELSE <<"late">>

\* C29: the completion status of a task is null when its due date or its
\* completion time is absent or invalid; otherwise it is on-time exactly when
\* the calendar date of completion is on or before the due date and late
\* exactly when it is after; a completed task's card carries that status.
C29_CompletionStatusByCalendarDate ==
    /\ \A i \in 1..Len(tasks) :
          getCompletionStatus(tasks[i].dueDate, tasks[i].completedAt)
              = ExpectedCompletionStatus(tasks[i].dueDate, tasks[i].completedAt)
    /\ ev.op = "load" =>
          \A i \in 1..Len(cards) : \A j \in 1..Len(tasks) :
              tasks[j].id = cards[i].taskId /\ tasks[j].completed =>
                  cards[i].completionStatus
                      = ExpectedCompletionStatus(tasks[j].dueDate, tasks[j].completedAt)

\* C29 witness: a task completed on its due date is rendered on-time
C29_Witness ==
    /\ ev.op = "load"
    /\ Len(cards) = 1 /\ Len(tasks) = 1
    /\ cards[1].completionStatus = <<"on-time">>
    /\ IsInstant(tasks[1].completedAt) /\ ValidIsoDate(tasks[1].dueDate)
    /\ CompletionDayNumber(tasks[1].completedAt) = DayNumber(tasks[1].dueDate)

\* C29 witnesses: a task completed after its due date is rendered late, and
\* a completed task whose completion time is no date has no status
C29_WitnessLate ==
    /\ ev.op = "load"
    /\ Len(cards) = 1 /\ cards[1].completionStatus = <<"late">>

C29_WitnessInvalid ==
    /\ ev.op = "load"
    /\ Len(cards) = 1 /\ Len(tasks) = 1
    /\ cards[1].completionStatus = NULL
    /\ ValidIsoDate(tasks[1].dueDate)
    /\ IsString(tasks[1].completedAt) /\ ~IsInstant(tasks[1].completedAt)
\* The heading that renderApp shows in place of the list (renderTasks with an
\* empty visible set renders the empty state)
EmptyStateTitle ==
    renderEmptyState(getEmptyState(CurrentState, getVisibleTasks(CurrentState))).title

\* C30: when no task is visible, the heading is the no-tasks one when the
\* tasks tab holds no task, the no-completed-tasks one when no task has been
\* completed, and a third one, about the filter, when the active tab holds
\* tasks and the active filter excludes all of them, in the completed view too.
C30_EmptyStateDistinguishesFilter ==
    LET tabTasks == getTasksForActiveView(CurrentState)
    IN  cards = <<>> =>
            /\ Len(tabTasks) = 0 /\ activeView = VIEW_MODE_TASKS
                    => EmptyStateTitle = <<"No tasks yet">>
            /\ Len(tabTasks) = 0 /\ activeView = VIEW_MODE_COMPLETED
                    => EmptyStateTitle = <<"No completed tasks yet">>
            /\ Len(tabTasks) > 0
                    => EmptyStateTitle \notin {<<"No tasks yet">>, <<"No completed tasks yet">>}

\* The part of C30 that holds: in the tasks view the three cases are told
\* apart, and with no completed task the completed view says so.
C30_TasksViewDistinguishesFilter ==
    LET tabTasks == getTasksForActiveView(CurrentState)
    IN  cards = <<>> =>
            /\ Len(tabTasks) = 0 /\ activeView = VIEW_MODE_TASKS
                    => EmptyStateTitle = <<"No tasks yet">>
            /\ Len(tabTasks) = 0 /\ activeView = VIEW_MODE_COMPLETED
                    => EmptyStateTitle = <<"No completed tasks yet">>
            /\ Len(tabTasks) > 0 /\ activeView = VIEW_MODE_TASKS
                    => EmptyStateTitle \notin {<<"No tasks yet">>, <<"No completed tasks yet">>}
            /\ Len(tabTasks) > 0 /\ activeView = VIEW_MODE_COMPLETED
                    => EmptyStateTitle = <<"No completed tasks yet">>

\* The tasks view shows a filter heading
C30_WitnessTasksView ==
    /\ cards = <<>> /\ activeView = VIEW_MODE_TASKS
    /\ Len(getTasksForActiveView(CurrentState)) > 0
    /\ activeFilter \notin {FILTER_MODE_ALL, FILTER_MODE_NONE}
\* C31: a handler that runs while localStorage refuses writes still completes
\* and changes the store (the tab toggle changes the view, the timer callback
\* completes its task) and leaves the snapshot as it was; a handler that
\* changes the store while writes succeed leaves the snapshot equal to the
\* whole store, whatever writes failed before.
C31_FailedWriteIsSwallowed ==
    /\ [][ev'.op = "toggle-view" => activeView' # activeView]_vars
    /\ [][ev'.op = "timer" /\ findIndex(tasks, ev'.id) # 0 =>
             /\ tasks'[findIndex(tasks, ev'.id)].completed
             /\ tasks'[findIndex(tasks, ev'.id)].completedAt = ToISOString(now)]_vars
    /\ [][<<tasks, activeView>>' # <<tasks, activeView>> =>
             IF setItemThrows THEN storage' = storage
             ELSE C18_SnapshotEqualsStore']_vars

\* C31 happens: a timer callback has completed a task while writes fail, and
\* the snapshot still lacks the completion
C31_Witness ==
    /\ ev.op = "timer"
    /\ setItemThrows
    /\ \E i \in 1..Len(tasks) :
           /\ tasks[i].id = ev.id
           /\ tasks[i].completed
           /\ i <= Len(storage.tasks)
           /\ ~storage.tasks[i].completed

\* C31 happens: writes succeed again and the snapshot has caught up with a
\* completion that the timer made at a later time than the page was loaded
C31_WitnessRecovered ==
    /\ ev.op = "toggle-view"
    /\ ~setItemThrows
    /\ C18_SnapshotEqualsStore
    /\ \E i \in 1..Len(tasks) :
           tasks[i].completed /\ tasks[i].completedAt = ToISOString(TASK_COMPLETE_ANIMATION_MS)
\* a can be had from b by leaving elements out
RECURSIVE IsSubsequence(_, _)
IsSubsequence(a, b) ==
    IF Len(a) = 0 THEN TRUE
    ELSE IF Len(b) = 0 THEN FALSE
    ELSE IF Head(a) = Head(b) /\ IsSubsequence(Tail(a), Tail(b)) THEN TRUE
    ELSE IsSubsequence(a, Tail(b))

\* C32: the visible tasks, and the cards rendered, are always a subsequence
\* of the stored tasks; after the page is loaded every handler either keeps
\* every task at its position (toggle-complete, the deferred commit,
\* deleteTemplate), appends one task at the end (add-task) or takes one task
\* out (delete-task): none reorders the stored sequence.
C32_StoredOrderIsKept ==
    /\ [](/\ IsSubsequence(getVisibleTasks(CurrentState), tasks)
          /\ IsSubsequence(CardIds, TaskIds(tasks)))
    /\ [][\/ /\ ev'.op \notin {"add-task", "delete-task"}
              /\ TaskIds(tasks') = TaskIds(tasks)
           \/ /\ ev'.op = "add-task"
              /\ \/ tasks' = tasks
                 \/ /\ Len(tasks') = Len(tasks) + 1
                    /\ SubSeq(tasks', 1, Len(tasks)) = tasks
           \/ /\ ev'.op = "delete-task"
              /\ \/ tasks' = tasks
                 \/ \E k \in 1..Len(tasks) :
                        tasks' = SubSeq(tasks, 1, k - 1) \o SubSeq(tasks, k + 1, Len(tasks))]_vars

\* C32 happens: a task was added behind an active and a completed one, and
\* the list shows the first and the third stored task, in that order
C32_Witness ==
    /\ ev.op = "add-task"
    /\ Len(tasks) = 3 /\ Len(cards) = 2
    /\ ~tasks[1].completed /\ tasks[2].completed
    /\ cards[1].taskId = tasks[1].id
    /\ cards[2].taskId = tasks[3].id
    /\ tasks[3].id = createTaskId(1)
\* The content is markup of b, i, u, br and p without attributes around a
\* plain text that is not empty
SanitizedContent(contentHtml) ==
    /\ IsString(contentHtml)
    /\ \A i \in 1..Len(contentHtml) :
           IsTagToken(contentHtml[i]) => contentHtml[i] \in SafeTagTokens
    /\ Len(getTextFromHTML(contentHtml)) > 0

\* C33: every task of the store, created through the composer or loaded from
\* a snapshot of any kind, has a content that is sanitizer output (tags b, i,
\* u, br, p only, no attributes) with a plain text that is not empty.
C33_StoredContentIsSanitized ==
    \A i \in 1..Len(tasks) : SanitizedContent(tasks[i].contentHtml)

\* The part of C33 that holds: a task that the composer creates has such a
\* content.
C33_CreatedContentIsSanitized ==
    [][ev'.op = "add-task" /\ Len(tasks') > Len(tasks)
           => SanitizedContent(tasks'[Len(tasks')].contentHtml)]_vars
\* Every handler other than add-task, delete-task and the page load keeps the
\* id, the content and the creation time of the task at every position.
C34_IdentityFieldsStable ==
    [][ev'.op \notin {"load", "add-task", "delete-task"} =>
          /\ Len(tasks') = Len(tasks)
          /\ \A i \in 1..Len(tasks) :
                 /\ tasks'[i].id = tasks[i].id
                 /\ tasks'[i].contentHtml = tasks[i].contentHtml
                 /\ tasks'[i].createdAt = tasks[i].createdAt]_vars

\* C34: in every reachable state, a state loaded from a snapshot of any kind
\* included, no two tasks of the store have the same id; and toggle-complete,
\* the deferred commit and deleteTemplate change no task's id, content or
\* creation time.
C34_IdsDistinctAndStable ==
    /\ [](\A i, j \in 1..Len(tasks) : tasks[i].id = tasks[j].id => i = j)
    /\ C34_IdentityFieldsStable
\* A label in cleaned form
CleanedForm(label) ==
    /\ IsString(label)
    /\ Len(label) > 0
    /\ Len(label) <= TEMPLATE_NAME_MAX_LENGTH
    /\ \A i \in 1..Len(label) : label[i] \notin {"[", "]"}
    /\ label[1] \notin {" ", NBSP}
    /\ label[Len(label)] \notin {" ", NBSP}
    /\ \A i \in 1..(Len(label) - 1) :
           ~(label[i] \in {" ", NBSP} /\ label[i + 1] \in {" ", NBSP})
    /\ sanitizeTemplateName(label) = label

\* The part of C35 that holds: a name that cleans to the empty string is
\* refused and the Template Set stays as it is.
C35_EmptyNameRejected ==
    [][ev'.op = "add-template" /\ sanitizeTemplateName(ev'.label) = <<>>
           => templates' = templates /\ tasks' = tasks]_vars

\* C35: a name that cleans to the empty string leaves the Template Set as it
\* is, and every label of the Template Set, in every reachable state (after a
\* load too), is in cleaned form: not empty, without brackets, without white
\* space at either end or two in a row, of at most 32 characters, and a fixed
\* point of the cleaning.
C35_LabelsInCleanedForm ==
    /\ C35_EmptyNameRejected
    /\ [](\A i \in 1..Len(templates) : CleanedForm(templates[i]))
InTemplateSet(label) == \E i \in 1..Len(templates) : templates[i] = label

\* C36: in every reachable state the view is tasks or completed, the filter is
\* all, none or a label of the Template Set, and the composer's template is
\* null or a label of the Template Set; a load from a snapshot whose
\* activeView is anything else gives the tasks view.
C36_ViewFilterComposerInRange ==
    /\ [](/\ activeView \in {VIEW_MODE_TASKS, VIEW_MODE_COMPLETED}
          /\ (activeFilter \in {FILTER_MODE_ALL, FILTER_MODE_NONE}
                 \/ InTemplateSet(activeFilter))
          /\ (composerTemplate = NULL \/ InTemplateSet(composerTemplate)))
    /\ [][ev'.op = "load" /\ storage.kind = "object"
              /\ storage.activeView \notin {VIEW_MODE_TASKS, VIEW_MODE_COMPLETED}
           => activeView' = VIEW_MODE_TASKS]_vars

\* C36 happens: the filter and the composer's template were labels of the set
\* and one of the two labels was deleted
C36_Witness ==
    /\ ev.op = "delete-template"
    /\ activeFilter = FILTER_MODE_ALL
    /\ composerTemplate # NULL
    /\ Len(templates) = 1

\* C36 happens: the filter is a label, the completed view is open
C36_WitnessLabel ==
    /\ ev.op = "select-filter"
    /\ activeView = VIEW_MODE_COMPLETED
    /\ InTemplateSet(activeFilter)
    /\ activeFilter \notin {FILTER_MODE_ALL, FILTER_MODE_NONE}
\* The task that a step on the task id of ev' acts on
ClickedIndex == findIndex(tasks, ev'.id)

\* C37: a toggle-complete click on a task that is not completed, in the tasks
\* view, on a card that is not yet completing, only schedules a timer: store
\* and snapshot are as before and the task is still active; the passing of
\* the interval changes neither; the timer callback sets completed and
\* completedAt in one update and the snapshot written has both; a toggle on a
\* completed task or in the completed view is applied and saved at once.
C37_CompletionIsDeferred ==
    /\ [][(/\ ev'.op = "toggle-complete"
            /\ ClickedIndex # 0
            /\ ~tasks[ClickedIndex].completed
            /\ activeView = VIEW_MODE_TASKS
            /\ \A i \in 1..Len(cards) : cards[i].taskId = ev'.id => ~cards[i].isCompleting)
           => /\ UNCHANGED <<tasks, templates, activeFilter, activeView, storage>>
              /\ ~tasks'[ClickedIndex].completed
              /\ tasks'[ClickedIndex].completedAt = tasks[ClickedIndex].completedAt
              /\ \E t \in timers' \ timers :
                     /\ t.taskId = ev'.id
                     /\ t.due = now + TASK_COMPLETE_ANIMATION_MS
                     /\ pendingCompletionTimers'[ev'.id] = t.id]_vars
    /\ [][ev'.op = "tick" => UNCHANGED <<tasks, storage, timers>>]_vars
    /\ [][(ev'.op = "timer" /\ ClickedIndex # 0)
           => /\ tasks' = [tasks EXCEPT ![ClickedIndex] =
                               [@ EXCEPT !.completed = TRUE,
                                         !.completedAt = ToISOString(now)]]
              /\ now >= TASK_COMPLETE_ANIMATION_MS
              /\ C18_SnapshotEqualsStore']_vars
    /\ [][(/\ ev'.op = "toggle-complete"
            /\ ClickedIndex # 0
            /\ (tasks[ClickedIndex].completed \/ activeView = VIEW_MODE_COMPLETED))
           => /\ tasks'[ClickedIndex].completed = ~tasks[ClickedIndex].completed
              /\ tasks'[ClickedIndex].completedAt =
                     (IF tasks[ClickedIndex].completed THEN NULL ELSE ToISOString(now))
              /\ UNCHANGED timers
              /\ C18_SnapshotEqualsStore']_vars

\* C37 happens: the click has scheduled the commit and the task is active
C37_Witness ==
    /\ ev.op = "toggle-complete"
    /\ \E t \in timers : t.taskId = ev.id /\ t.due = now + TASK_COMPLETE_ANIMATION_MS
    /\ \E i \in 1..Len(tasks) :
           tasks[i].id = ev.id /\ ~tasks[i].completed /\ ~storage.tasks[i].completed

\* C37 happens: the timer has fired and the task is completed, in the store
\* and in the snapshot
C37_WitnessCommitted ==
    /\ ev.op = "timer"
    /\ \E i \in 1..Len(tasks) :
           /\ tasks[i].id = ev.id
           /\ tasks[i].completed
           /\ tasks[i].completedAt = ToISOString(TASK_COMPLETE_ANIMATION_MS)
           /\ storage.tasks[i].completed
           /\ storage.tasks[i].completedAt = tasks[i].completedAt

\* C37 happens: a completed task was reopened at once in the completed view
C37_WitnessImmediate ==
    /\ ev.op = "toggle-complete"
    /\ activeView = VIEW_MODE_COMPLETED
    /\ timers = {}
    /\ \E i \in 1..Len(tasks) :
           tasks[i].id = ev.id /\ ~tasks[i].completed /\ ~storage.tasks[i].completed
\* The ids of the tasks of the snapshots the page is started from
StoredTaskIds == { <<"a">>, <<"b">> }

\* C38: if the browser fires the timers it was given, a task id with a pending
\* deferred commit leads to that task being deleted or completed with a
\* completion time, and a registry that holds an entry leads to an empty
\* registry: no entry stays behind for a fired, overtaken or deleted timer.
C38_PendingCommitHappens ==
    /\ \A id \in StoredTaskIds :
           (id \in DOMAIN pendingCompletionTimers)
               ~> \/ findIndex(tasks, id) = 0
                  \/ /\ tasks[findIndex(tasks, id)].completed
                     /\ tasks[findIndex(tasks, id)].completedAt # NULL
    /\ (pendingCompletionTimers # EmptyMap)
           ~> (pendingCompletionTimers = EmptyMap /\ timers = {})

\* C38 happens: the second timer of a session, scheduled when the first delay
\* had passed, has fired and completed its task; the registry is empty
C38_Witness ==
    /\ ev.op = "timer"
    /\ now = 2 * TASK_COMPLETE_ANIMATION_MS
    /\ pendingCompletionTimers = EmptyMap
    /\ timers = {}
    /\ \E i \in 1..Len(tasks) :
           /\ tasks[i].id = ev.id
           /\ tasks[i].completed
           /\ tasks[i].completedAt = ToISOString(now)

\* The part of C38 that holds: the same, in a store whose ids are distinct.
C38_PendingCommitHappensDistinctIds ==
    LET Distinct == \A i, j \in 1..Len(tasks) : tasks[i].id = tasks[j].id => i = j
    IN  /\ \A id \in StoredTaskIds :
               (Distinct /\ id \in DOMAIN pendingCompletionTimers)
                   ~> \/ findIndex(tasks, id) = 0
                      \/ /\ tasks[findIndex(tasks, id)].completed
                         /\ tasks[findIndex(tasks, id)].completedAt # NULL
        /\ (pendingCompletionTimers # EmptyMap)
               ~> (pendingCompletionTimers = EmptyMap /\ timers = {})

\* C39: in every state that the handlers reach, loading the snapshot just
\* written gives the tasks of the store (same order, same fields), the
\* Template Set of the store in the same order, and the view of the store.
C39_SaveLoadRoundTrip ==
    LET loaded == loadState(storage, now)
    IN  /\ loaded.tasks = tasks
        /\ loaded.templates = templates
        /\ loaded.activeView = activeView

\* The part of C39 that holds: the round trip of a store whose labels are all
\* in cleaned form.
C39_RoundTripOfCleanedLabels ==
    (\A i \in 1..Len(templates) : CleanedForm(templates[i])) => C39_SaveLoadRoundTrip

\* C40: a page load from a snapshot that saveState wrote gives the filter of
\* that snapshot, whenever that filter is all, none or a label of the Template
\* Set that the load returns.
C40_FilterSurvivesReload ==
    [][(/\ ev'.op = "load"
        /\ ev.op # "start"
        /\ storage = saveState(CurrentState)
        /\ \/ storage.activeFilter \in {FILTER_MODE_ALL, FILTER_MODE_NONE}
           \/ \E i \in 1..Len(templates') : templates'[i] = storage.activeFilter)
       => activeFilter' = storage.activeFilter]_vars

\* The part of C40 that holds: the filter all survives, and the view does.
C40_FilterAllSurvivesReload ==
    [][(ev'.op = "load" /\ ev.op # "start" /\ storage = saveState(CurrentState))
       => /\ activeFilter' = FILTER_MODE_ALL
          /\ activeView' = storage.activeView]_vars
====
